---- MODULE Spec2Model ----
(***************************************************************************)
(* A model of the linquery query pipeline: the filter matcher and lookup   *)
(* registry, QuerySet (cloning, normalizeFilter, execute, get, first), the *)
(* memory backend and the Model save/delete lifecycle.                     *)
(*                                                                         *)
(* JavaScript values are tagged records: [t |-> "undefined"], [t |->       *)
(* "null"], [t |-> "number", n |-> 1], [t |-> "string", s |-> "Ana"],      *)
(* [t |-> "boolean", b |-> TRUE], [t |-> "array", a |-> <<...>>] and       *)
(* [t |-> "object", o |-> f] where f maps property names to values.        *)
(***************************************************************************)
EXTENDS Integers, Sequences, FiniteSets, TLC

VARIABLES
    mItem,      \* matcher run: the entity handed to filterLookup
    mFilter,    \* matcher run: the filter node handed to filterLookup
    mResult,    \* matcher run: "none" before filterLookup ran, then "true"/"false"
    mLegacy,    \* matcher run: the same for match() of the earlier module
    nInput,     \* normalizeFilter run: the filters of the queryset
    nOnce,      \* normalizeFilter run: <<>> or <<normalizeFilter(nInput)>>
    nTwice,     \* normalizeFilter run: <<>> or <<normalizeFilter(of nOnce)>>
    qsObjs,     \* the QuerySet objects created so far (qsObjs[1] is Model.objects)
    heap,       \* the arrays and maps the QuerySet objects refer to
    qsCall,     \* the last chain call: [src |-> receiver, ret |-> returned object]
    execSrc,    \* the QuerySet object execute() was last called on (0: never)
    execOpts,   \* <<>> or <<the options of the last backend.execute call>>
    execResult, \* what the last execute() resolved to
    objs,       \* the model instances created so far (a reference is an index)
    store,      \* the Map of the memory backend: <<[key, ref], ...>> in insertion order
    backend,    \* the memory backend in use: [kind, options]
    clock,      \* the current time, what new Date() yields
    lastCall,   \* the last call on the stored data, its arguments and the data before it
    lastOut,    \* what that call settled to
    handlers,   \* the signal handlers registered: [pre |-> n, post |-> n]
    pc,         \* where the running Model.save or Model.delete stands
    waiting,    \* the handlers of the emitted signal that have not settled
    log,        \* the events of the last Model.save or Model.delete, in order
    models,     \* the Map of each registry: <<[name, class], ...>> in insertion order
    stamped,    \* for each model class, the registry its static registry refers to
    protos,     \* for each model class, the accessors defined on its prototype
    regCall,    \* the last call on a registry or an accessor, and its arguments
    regOut,     \* what that call returned or threw
    backendLog, \* the backend.execute calls the memory backends received: [model, options]
    lookups,    \* the registry object of the lookups: the comparison under each own name
    schemaRun,  \* the running getSchema or fullClean: its call stack, cache and outcome
    flights     \* the backend.save and backend.delete calls made at once: [op, ref, pk, at, map]

matchVars == <<mItem, mFilter, mResult, mLegacy>>
normVars == <<nInput, nOnce, nTwice>>
qsVars == <<qsObjs, heap, qsCall, execSrc, execOpts, execResult>>
dataVars == <<objs, store, backend, clock, lastCall, lastOut>>

lifeVars == <<handlers, pc, waiting, log>>
regVars == <<models, stamped, protos, regCall, regOut>>
logVars == <<backendLog>>
lookupVars == <<lookups>>
schemaVars == <<schemaRun>>
flightVars == <<flights>>

\* what a step of each group leaves alone
MatchFrame == UNCHANGED <<normVars, qsVars, dataVars, lifeVars, regVars, logVars, lookupVars, schemaVars, flightVars>>
NormFrame == UNCHANGED <<matchVars, qsVars, dataVars, lifeVars, regVars, logVars, lookupVars, schemaVars, flightVars>>
QsFrame == UNCHANGED <<matchVars, normVars, dataVars, lifeVars, regVars, logVars, lookupVars, schemaVars, flightVars>>
DataFrame == UNCHANGED <<matchVars, normVars, qsVars, lifeVars, regVars, logVars, lookupVars, schemaVars, flightVars>>
\* a step that calls backend.execute leaves alone what DataFrame does, but the log
QueryFrame == UNCHANGED <<matchVars, normVars, qsVars, lifeVars, regVars, lookupVars, schemaVars, flightVars>>
\* a step on the lookup registry or of the matcher on it
LookupFrame == UNCHANGED <<normVars, qsVars, dataVars, lifeVars, regVars, logVars, schemaVars, flightVars>>
\* a step of getSchema or of fullClean's validators
SchemaFrame ==
    UNCHANGED <<matchVars, normVars, qsVars, dataVars, lifeVars, regVars, logVars, lookupVars,
                flightVars>>
\* a step of a backend.save or backend.delete call that runs beside others
FlightFrame ==
    UNCHANGED <<matchVars, normVars, qsVars, lifeVars, regVars, logVars, lookupVars, schemaVars>>
LifeFrame == UNCHANGED <<matchVars, normVars, qsVars, regVars, logVars, lookupVars, schemaVars, flightVars>>
RegFrame == UNCHANGED <<matchVars, normVars, qsVars, dataVars, lifeVars, logVars, lookupVars, schemaVars, flightVars>>

-----------------------------------------------------------------------------
(* JavaScript values *)

Undef == [t |-> "undefined"]
Null == [t |-> "null"]
Num(n) == [t |-> "number", n |-> n]
Str(s) == [t |-> "string", s |-> s]
Bool(b) == [t |-> "boolean", b |-> b]
Arr(a) == [t |-> "array", a |-> a]
Obj(o) == [t |-> "object", o |-> o]
EmptyObj == Obj([k \in {} |-> Undef])

\* typeof v === "object" (true of null, arrays and objects)
TypeofObject(v) == v.t \in {"null", "array", "object"}

\* typeof v === "object" && v !== null && !Array.isArray(v)
IsPlainObject(v) == v.t = "object"

\* JavaScript truthiness of a value
Truthy(v) ==
    CASE v.t = "undefined" -> FALSE
      [] v.t = "null" -> FALSE
      [] v.t = "number" -> v.n # 0
      [] v.t = "string" -> v.s # ""
      [] v.t = "boolean" -> v.b
      [] OTHER -> TRUE

\* "k in obj": own property test on an object value
HasKey(obj, k) == k \in DOMAIN obj.o

\* obj?.[k]: undefined when obj is not an object or lacks the property
Prop(obj, k) == IF obj.t = "object" /\ k \in DOMAIN obj.o THEN obj.o[k] ELSE Undef

\* a === b: primitives by value; arrays and objects only by identity, and an
\* operand written in a filter is never the object held by an entity
StrictEq(a, b) ==
    /\ a.t = b.t
    /\ a.t \in {"undefined", "null", "number", "string", "boolean"}
    /\ a = b

\* the strings of the model in lexicographic order
StrOrder == <<"Ana", "Bob", "Cy">>
StrRank(s) == IF \E i \in DOMAIN StrOrder : StrOrder[i] = s
              THEN CHOOSE i \in DOMAIN StrOrder : StrOrder[i] = s
              ELSE 0

\* a < b of JavaScript for numbers and for strings; a mixed or undefined
\* comparison converts to NaN and is false
JsLess(a, b) ==
    \/ a.t = "number" /\ b.t = "number" /\ a.n < b.n
    \/ a.t = "string" /\ b.t = "string" /\ StrRank(a.s) < StrRank(b.s)

JsLessEq(a, b) ==
    \/ a.t = "number" /\ b.t = "number" /\ a.n <= b.n
    \/ a.t = "string" /\ b.t = "string" /\ StrRank(a.s) <= StrRank(b.s)

-----------------------------------------------------------------------------
(* Lookup registry *)

\* the names registerLookup is called with at module load (those the model uses)
BuiltinLookups == {"eq", "ne", "gt", "gte", "lt", "lte", "in", "notIn",
                   "exact", "is", "isNull", "exists"}

\* b.includes(a) for an array operand
ArrIncludes(b, a) == \E i \in DOMAIN b.a : StrictEq(b.a[i], a)

\* getLookup(name).compare(a, b): the registered comparison, or strict
\* equality for a name that is not registered
Compare(name, a, b) ==
    CASE name \in {"eq", "exact", "is"} -> StrictEq(a, b)
      [] name = "ne" -> ~StrictEq(a, b)
      [] name = "gt" -> JsLess(b, a)
      [] name = "gte" -> JsLessEq(b, a)
      [] name = "lt" -> JsLess(a, b)
      [] name = "lte" -> JsLessEq(a, b)
      [] name = "in" -> b.t = "array" /\ ArrIncludes(b, a)
      [] name = "notIn" -> b.t = "array" /\ ~ArrIncludes(b, a)
      [] name = "isNull" -> b.t = "boolean" /\ ((a.t \in {"null", "undefined"}) <=> b.b)
      [] name = "exists" -> b.t = "boolean" /\ ((a.t # "undefined") <=> b.b)
      [] OTHER -> StrictEq(a, b)

\* the members the registry object, created as {}, inherits from
\* Object.prototype (those the model uses)
ObjectPrototype == {"constructor", "toString", "valueOf"}

\* the registry once the module has loaded: each builtin under its name
LoadedLookups == [name \in BuiltinLookups |-> name]

\* registerLookup(name, impl): registry[name] = impl
registerLookup(registry, name, impl) ==
    [n \in DOMAIN registry \cup {name} |-> IF n = name THEN impl ELSE registry[n]]

\* registry[name] ?? {compare: (a, b) => a === b}: registry[name] is the own
\* property, else the member inherited from Object.prototype, else undefined
getLookup(registry, name) ==
    IF name \in DOMAIN registry THEN [compare |-> registry[name]]
    ELSE IF name \in ObjectPrototype THEN [inherited |-> name]
    ELSE [compare |-> "strictEquality"]

\* the comparison an impl makes: a builtin one by its name, the strict
\* equality of the default, or one of a caller that never matches
CompareWith(impl, a, b) ==
    CASE impl = "strictEquality" -> StrictEq(a, b)
      [] impl = "never" -> FALSE
      [] OTHER -> Compare(impl, a, b)

\* lookup.compare(a, b): calling a compare that is undefined is a TypeError
callCompare(lookup, a, b) ==
    IF "compare" \notin DOMAIN lookup THEN "TypeError"
    ELSE IF CompareWith(lookup.compare, a, b) THEN "true" ELSE "false"

-----------------------------------------------------------------------------
(* Filter matcher *)

LogicalKeys == {"AND", "OR", "NOT"}

\* path.split("."): the dotted keys the model uses, split into their parts
PathParts(key) ==
    CASE key = "group.id" -> <<"group", "id">>
      [] key = "user.id" -> <<"user", "id">>
      [] key = "category.id" -> <<"category", "id">>
      [] key = "owner.id" -> <<"owner", "id">>
      [] OTHER -> <<key>>

\* getByPath: reduce over the parts with acc?.[part]
RECURSIVE getByPathFrom(_, _)
getByPathFrom(acc, parts) ==
    IF parts = <<>> THEN acc
    ELSE getByPathFrom(Prop(acc, Head(parts)), Tail(parts))

getByPath(obj, key) == getByPathFrom(obj, PathParts(key))

\* one field condition: a plain object is a map of lookups that must all
\* pass, any other value is an exact match
FieldCondition(item, key, value) ==
    IF IsPlainObject(value)
    THEN \A op \in DOMAIN value.o : Compare(op, getByPath(item, key), value.o[op])
    ELSE Compare("exact", getByPath(item, key), value)

\* fieldResult: every key of the node that is not a logical key passes
FieldResult(item, filters) ==
    \A key \in (DOMAIN filters.o) \ LogicalKeys :
        FieldCondition(item, key, filters.o[key])

\* the matcher with both AND and OR honoured on one node
RECURSIVE filterLookupBoth(_, _)
filterLookupBoth(item, filters) ==
    LET fieldResult == FieldResult(item, filters)
        andPart == IF HasKey(filters, "AND") /\ Truthy(filters.o["AND"])
                   THEN filterLookupBoth(item, filters.o["AND"]) ELSE TRUE
    IN  IF HasKey(filters, "OR") /\ Truthy(filters.o["OR"])
        THEN (fieldResult /\ andPart) \/ filterLookupBoth(item, filters.o["OR"])
        ELSE IF HasKey(filters, "NOT") /\ Truthy(filters.o["NOT"])
        THEN fieldResult /\ andPart /\ ~filterLookupBoth(item, filters.o["NOT"])
        ELSE fieldResult /\ andPart

\* filterLookup(item, filters)
RECURSIVE filterLookup(_, _)
filterLookup(item, filters) ==
    LET fieldResult == FieldResult(item, filters)
    IN  IF HasKey(filters, "AND") /\ Truthy(filters.o["AND"])
        THEN fieldResult /\ filterLookup(item, filters.o["AND"])
        ELSE IF HasKey(filters, "OR") /\ Truthy(filters.o["OR"])
        THEN fieldResult \/ filterLookup(item, filters.o["OR"])
        ELSE IF HasKey(filters, "NOT") /\ Truthy(filters.o["NOT"])
        THEN fieldResult /\ ~filterLookup(item, filters.o["NOT"])
        ELSE fieldResult

\* match(item, filters): the matcher of the earlier queryset module
RECURSIVE match(_, _)
match(item, filters) ==
    LET fieldResult ==
            \A key \in (DOMAIN filters.o) \ LogicalKeys :
                LET value == filters.o[key]
                IN  IF IsPlainObject(value)
                    THEN \A op \in DOMAIN value.o :
                            Compare(op, getByPath(item, key), value.o[op])
                    ELSE Compare("eq", getByPath(item, key), value)
    IN  IF HasKey(filters, "AND") /\ Truthy(filters.o["AND"])
        THEN fieldResult /\ match(item, filters.o["AND"])
        ELSE IF HasKey(filters, "OR") /\ Truthy(filters.o["OR"])
        THEN fieldResult \/ match(item, filters.o["OR"])
        ELSE IF HasKey(filters, "NOT") /\ Truthy(filters.o["NOT"])
        THEN fieldResult /\ ~match(item, filters.o["NOT"])
        ELSE fieldResult

\* filterLookup(item, {[key]: value}) on a registry, for a value that is a
\* primitive or a lookup object with one operator
filterLookupOne(registry, item, key, value) ==
    LET op == CHOOSE name \in DOMAIN value.o : TRUE
    IN  IF IsPlainObject(value)
        THEN callCompare(getLookup(registry, op), getByPath(item, key), value.o[op])
        ELSE callCompare(getLookup(registry, "exact"), getByPath(item, key), value)

-----------------------------------------------------------------------------
(* QuerySet.normalizeFilter *)

\* Object.entries of an array: its indices "0", "1", ... as keys
ArrayKeys(v) == {ToString(i - 1) : i \in DOMAIN v.a}
ArrayAt(v, k) == v.a[CHOOSE i \in DOMAIN v.a : ToString(i - 1) = k]

\* Object.entries(input): the keys and the value under a key
EntryKeys(v) == IF v.t = "array" THEN ArrayKeys(v) ELSE DOMAIN v.o
EntryAt(v, k) == IF v.t = "array" THEN ArrayAt(v, k) ELSE v.o[k]

\* normalizeFilter that wraps literals at the top level only
normalizeFilterShallow(input) ==
    IF ~Truthy(input) \/ ~TypeofObject(input) THEN input
    ELSE Obj([key \in EntryKeys(input) |->
            LET value == EntryAt(input, key)
            IN  IF key \in LogicalKeys /\ TypeofObject(value) THEN value
                ELSE IF value.t # "object" THEN Obj([exact |-> value])
                ELSE value])

\* normalizeFilter that wraps every field value, a lookup object included
RECURSIVE normalizeFilterRewrap(_)
normalizeFilterRewrap(input) ==
    IF ~Truthy(input) \/ ~TypeofObject(input) THEN input
    ELSE Obj([key \in EntryKeys(input) |->
            LET value == EntryAt(input, key)
            IN  IF key \in LogicalKeys /\ TypeofObject(value)
                THEN normalizeFilterRewrap(value)
                ELSE Obj([exact |-> value])])

\* normalizeFilter(input)
RECURSIVE normalizeFilter(_)
normalizeFilter(input) ==
    IF ~Truthy(input) \/ ~TypeofObject(input) THEN input
    ELSE Obj([key \in EntryKeys(input) |->
            LET value == EntryAt(input, key)
            IN  IF key \in LogicalKeys /\ TypeofObject(value)
                THEN normalizeFilter(value)
                ELSE IF value.t # "object"      \* null, primitive or array
                THEN Obj([exact |-> value])
                ELSE value])

-----------------------------------------------------------------------------
(* Model classes and the registry *)

\* getFields() of the model classes: each field's type and relation target
ModelFields(m) ==
    CASE m = "User" ->
            [id    |-> [type |-> "string", model |-> ""],
             name  |-> [type |-> "string", model |-> ""],
             age   |-> [type |-> "number", model |-> ""],
             joined |-> [type |-> "date", model |-> ""],
             group |-> [type |-> "relation", model |-> "Group"],
             ghost |-> [type |-> "relation", model |-> "Nowhere"],
             tags  |-> [type |-> "manyToMany", model |-> "Tag"],
             posts |-> [type |-> "reverse", model |-> "Post"]]
      [] m = "Group" ->
            [id    |-> [type |-> "string", model |-> ""],
             name  |-> [type |-> "string", model |-> ""]]
      [] m = "Badge" ->
            [code  |-> [type |-> "string", model |-> ""],
             id    |-> [type |-> "string", model |-> ""]]
      [] m = "Member" ->
            [id    |-> [type |-> "string", model |-> ""],
             name  |-> [type |-> "string", model |-> ""],
             group |-> [type |-> "relation", model |-> "Group"],
             badge |-> [type |-> "relation", model |-> "Badge"],
             ghost |-> [type |-> "relation", model |-> "Nowhere"],
             posts |-> [type |-> "reverse", model |-> "Post"]]
      [] m = "Event" ->
            [id    |-> [type |-> "string", model |-> ""],
             seats |-> [type |-> "number", model |-> ""],
             at    |-> [type |-> "date", model |-> ""],
             meta  |-> [type |-> "json", model |-> ""],
             group |-> [type |-> "relation", model |-> "Group"],
             address |-> [type |-> "nested", model |-> "Address"]]
      [] m = "Address" ->
            [city  |-> [type |-> "string", model |-> ""],
             zip   |-> [type |-> "number", model |-> ""]]
      [] m = "Category" ->
            [id    |-> [type |-> "string", model |-> ""],
             name  |-> [type |-> "string", model |-> ""],
             category |-> [type |-> "relation", model |-> "Category"],
             children |-> [type |-> "reverse", model |-> "Category"],
             owner |-> [type |-> "relation", model |-> "Category"],
             owned |-> [type |-> "reverse", model |-> "Category"]]
      [] OTHER ->
            [id    |-> [type |-> "string", model |-> ""]]

\* static pkField of a model class: "id" unless the class sets another
PkFieldOf(model) == IF model = "Badge" THEN "code" ELSE "id"

\* model.name.charAt(0).toLowerCase() + model.name.slice(1)
LowerFirst(c) ==
    CASE c = "Group" -> "group"
      [] c = "BankAccount" -> "bankAccount"
      [] c = "Broken" -> "broken"
      [] c = "CustomReverse" -> "customReverse"
      [] c = "Membership" -> "membership"
      [] c = "User" -> "user"
      [] c = "Category" -> "category"
      [] OTHER -> c

\* getPk(): this[pkField], the pkField being "id"
getPk(e) == Prop(e, "id")

\* the names registered in the model registry
RegisteredModels == {"User", "Group", "Tag", "Post", "Badge", "Member", "Category"}

\* registry.get(name): the class (its name) or undefined ("")
RegistryGet(name) == IF name \in RegisteredModels THEN name ELSE ""

-----------------------------------------------------------------------------
(* QuerySet objects on a heap of containers *)

\* A QuerySet object holds one reference per container field (0: undefined)
\* into a heap of arrays and maps, and the valuesListFlat flag.
ContainerFields == {"filters", "ordering", "pagination", "onlyFields",
                    "selectRelatedFields", "prefetchRelatedFields", "valuesListFields"}

\* new QuerySet(modelClass, backend): every state field undefined
NewQuerySet == [refs |-> [f \in ContainerFields |-> 0], flat |-> Undef]

\* the value a field of an object holds
Deref(h, o, f) == IF o.refs[f] = 0 THEN Undef ELSE h[o.refs[f]]

\* the observable state of a QuerySet object
View(h, o) == [f \in ContainerFields |-> Deref(h, o, f)] @@ [valuesListFlat |-> o.flat]

\* {...a, ...b} for objects (an undefined operand contributes nothing)
Spread(a, b) ==
    LET da == IF a.t = "object" THEN DOMAIN a.o ELSE {}
        db == IF b.t = "object" THEN DOMAIN b.o ELSE {}
    IN  Obj([k \in da \cup db |-> IF k \in db THEN b.o[k] ELSE a.o[k]])

\* obj.field = value, the value being a newly created array or map
Assign(c, f, value) ==
    [h |-> Append(c.h, value), o |-> [c.o EXCEPT !.refs[f] = Len(c.h) + 1]]

\* a copy of field f of o in a new container when the field is defined or a
\* default is given, otherwise the field stays undefined
CopyField(c, o, h, f, default) ==
    IF o.refs[f] # 0 THEN Assign(c, f, h[o.refs[f]])
    ELSE IF default # Undef THEN Assign(c, f, default)
    ELSE c

\* clone() that hands the prefetch map of the original to the copy
cloneSharingPrefetch(h, o) ==
    LET c0 == [h |-> h, o |-> NewQuerySet]
        c1 == CopyField(c0, o, h, "filters", EmptyObj)
        c2 == CopyField(c1, o, h, "ordering", Arr(<<>>))
        c3 == CopyField(c2, o, h, "pagination", Undef)
        c4 == CopyField(c3, o, h, "onlyFields", Undef)
        c5 == CopyField(c4, o, h, "selectRelatedFields", Undef)
    IN  [c5 EXCEPT !.o.refs["prefetchRelatedFields"] = o.refs["prefetchRelatedFields"]]

\* clone(): a new object with copies of filters, ordering, pagination,
\* onlyFields, selectRelatedFields and prefetchRelatedFields
clone(h, o) ==
    LET c0 == [h |-> h, o |-> NewQuerySet]
        c1 == CopyField(c0, o, h, "filters", EmptyObj)
        c2 == CopyField(c1, o, h, "ordering", Arr(<<>>))
        c3 == CopyField(c2, o, h, "pagination", Undef)
        c4 == CopyField(c3, o, h, "onlyFields", Undef)
        c5 == CopyField(c4, o, h, "selectRelatedFields", Undef)
    IN  CopyField(c5, o, h, "prefetchRelatedFields", Undef)

\* filter(filters)
filter(h, o, filters) ==
    LET c == clone(h, o)
    IN  Assign(c, "filters", Spread(Deref(c.h, c.o, "filters"), filters))

\* exclude(filters)
exclude(h, o, filters) ==
    LET c == clone(h, o)
    IN  Assign(c, "filters", Spread(Deref(h, o, "filters"), Obj([NOT |-> filters])))

\* field.startsWith("-") and field.slice(1) on the ordering strings of the model
StartsWithDash(s) == s \in {"-age", "-name", "-score"}
Slice1(s) ==
    CASE s = "-age" -> "age"
      [] s = "-name" -> "name"
      [] s = "-score" -> "score"
      [] OTHER -> s

\* one element of orderBy's argument list turned into {field, direction}
OrderEntry(field) ==
    IF field.t = "string"
    THEN Obj([field |-> Str(IF StartsWithDash(field.s) THEN Slice1(field.s) ELSE field.s),
              direction |-> Str(IF StartsWithDash(field.s) THEN "DESC" ELSE "ASC")])
    ELSE field

\* orderBy(...fields)
orderBy(h, o, fields) ==
    Assign(clone(h, o), "ordering", Arr([i \in DOMAIN fields |-> OrderEntry(fields[i])]))

\* limit(n)
limit(h, o, n) ==
    Assign(clone(h, o), "pagination", Spread(Deref(h, o, "pagination"), Obj([limit |-> Num(n)])))

\* paginate(pagination)
paginate(h, o, pagination) ==
    Assign(clone(h, o), "pagination", Spread(Deref(h, o, "pagination"), pagination))

\* only(...fields)
only(h, o, fields) == Assign(clone(h, o), "onlyFields", Arr(fields))

\* selectRelated(...fields)
selectRelated(h, o, fields) == Assign(clone(h, o), "selectRelatedFields", Arr(fields))

\* the entries prefetchRelated writes for one argument: a string is set to
\* true; of a config map only the keys the model defines as fields are set
PrefetchEntries(model, field) ==
    IF field.t = "string" THEN Obj([k \in {field.s} |-> Bool(TRUE)])
    ELSE Obj([k \in (DOMAIN field.o) \cap DOMAIN ModelFields(model) |->
                IF field.o[k].t \in {"null", "undefined"} THEN Bool(TRUE) ELSE field.o[k]])

RECURSIVE PrefetchWrites(_, _, _)
PrefetchWrites(model, map, fields) ==
    IF fields = <<>> THEN map
    ELSE PrefetchWrites(model, Spread(map, PrefetchEntries(model, Head(fields))), Tail(fields))

\* prefetchRelated(...fields): the entries are written into the map the
\* clone holds (a new {} when the clone has none)
prefetchRelated(h, o, model, fields) ==
    LET c == clone(h, o)
        c1 == IF c.o.refs["prefetchRelatedFields"] = 0
              THEN Assign(c, "prefetchRelatedFields", EmptyObj) ELSE c
        ref == c1.o.refs["prefetchRelatedFields"]
    IN  [c1 EXCEPT !.h[ref] = PrefetchWrites(model, c1.h[ref], fields)]

\* valuesList(...args): a trailing {flat} object is the options
valuesList(h, o, args) ==
    LET last == IF args = <<>> THEN Undef ELSE args[Len(args)]
        opts == last.t = "object" /\ "flat" \in DOMAIN last.o
        fields == IF opts THEN SubSeq(args, 1, Len(args) - 1) ELSE args
        flat == IF opts /\ last.o["flat"].t \notin {"null", "undefined"}
                THEN last.o["flat"] ELSE Bool(FALSE)
        c == Assign(clone(h, o), "valuesListFields", Arr(fields))
    IN  [c EXCEPT !.o.flat = flat]

-----------------------------------------------------------------------------
(* QuerySets as values, and QuerySet.execute *)

\* a QuerySet object and heap holding exactly the state q
FieldOrder == <<"filters", "ordering", "pagination", "onlyFields",
                "selectRelatedFields", "prefetchRelatedFields", "valuesListFields">>
FieldIndex(f) == CHOOSE i \in DOMAIN FieldOrder : FieldOrder[i] = f
Materialize(q) ==
    [h |-> [i \in DOMAIN FieldOrder |-> q[FieldOrder[i]]],
     o |-> [refs |-> [f \in ContainerFields |-> IF q[f] = Undef THEN 0 ELSE FieldIndex(f)],
            flat |-> q["valuesListFlat"]]]

ViewOf(c) == View(c.h, c.o)

\* Model.objects: the default queryset of a model class
DefaultQS == View(<<>>, NewQuerySet)

\* the chain methods on queryset values; the receiver is materialised once
\* and the clone is viewed once
TheOne(S) == CHOOSE v \in S : TRUE
QFilter(q, x) ==
    TheOne({View(c.h, c.o) : c \in {filter(m.h, m.o, x) : m \in {Materialize(q)}}})
QExclude(q, x) ==
    TheOne({View(c.h, c.o) : c \in {exclude(m.h, m.o, x) : m \in {Materialize(q)}}})
QOrderBy(q, x) ==
    TheOne({View(c.h, c.o) : c \in {orderBy(m.h, m.o, x) : m \in {Materialize(q)}}})
QLimit(q, n) ==
    TheOne({View(c.h, c.o) : c \in {limit(m.h, m.o, n) : m \in {Materialize(q)}}})
QPaginate(q, x) ==
    TheOne({View(c.h, c.o) : c \in {paginate(m.h, m.o, x) : m \in {Materialize(q)}}})
QOnly(q, x) ==
    TheOne({View(c.h, c.o) : c \in {only(m.h, m.o, x) : m \in {Materialize(q)}}})
QSelectRelated(q, x) ==
    TheOne({View(c.h, c.o) : c \in {selectRelated(m.h, m.o, x) : m \in {Materialize(q)}}})
QPrefetchRelated(model, q, x) ==
    TheOne({View(c.h, c.o) : c \in {prefetchRelated(m.h, m.o, model, x) : m \in {Materialize(q)}}})
QValuesList(q, x) ==
    TheOne({View(c.h, c.o) : c \in {valuesList(m.h, m.o, x) : m \in {Materialize(q)}}})

\* the select-related part of execute: relatedQuerySets[fieldName] is the
\* target's default queryset for a relation field with a resolvable target
SelectQuerySets(model, q) ==
    LET names == IF q["selectRelatedFields"].t = "array"
                 THEN {q["selectRelatedFields"].a[i].s : i \in DOMAIN q["selectRelatedFields"].a}
                 ELSE {}
        fields == ModelFields(model)
        ok(n) == /\ n \in DOMAIN fields
                 /\ fields[n].type = "relation"
                 /\ fields[n].model # ""
                 /\ RegistryGet(fields[n].model) # ""
    IN  [n \in {x \in names : ok(x)} |-> [model |-> fields[n].model, qs |-> DefaultQS]]

\* the queryset prepared for one prefetch field from its config
PrefetchQuerySet(config) ==
    LET has(k) == config.t = "object" /\ k \in DOMAIN config.o /\ Truthy(config.o[k])
        filtered(q) == IF has("filters") THEN QFilter(q, config.o["filters"]) ELSE q
        ordered(q) == IF has("ordering") THEN QOrderBy(q, config.o["ordering"].a) ELSE q
        narrowed(q) == IF has("only") THEN QOnly(q, config.o["only"].a) ELSE q
        paged(q) == IF has("pagination") THEN QPaginate(q, config.o["pagination"]) ELSE q
        excluded(q) == IF has("exclude") THEN QExclude(q, config.o["exclude"]) ELSE q
    IN  excluded(paged(narrowed(ordered(filtered(DefaultQS)))))

\* the prefetch-related part of execute
PrefetchQuerySets(model, q) ==
    LET map == q["prefetchRelatedFields"]
        names == IF map.t = "object" THEN DOMAIN map.o ELSE {}
        fields == ModelFields(model)
        ok(n) == /\ n \in DOMAIN fields
                 /\ fields[n].type \in {"reverse", "manyToMany"}
                 /\ fields[n].model # ""
                 /\ RegistryGet(fields[n].model) # ""
    IN  [n \in {x \in names : ok(x)} |->
            [model |-> fields[n].model, qs |-> PrefetchQuerySet(map.o[n])]]

\* the options execute() hands to backend.execute
ExecuteOptions(model, q) ==
    [filters |-> normalizeFilter(q["filters"]),
     ordering |-> q["ordering"],
     pagination |-> q["pagination"],
     only |-> q["onlyFields"],
     selectRelated |-> q["selectRelatedFields"],
     prefetchRelated |-> q["prefetchRelatedFields"],
     relatedQuerySets |-> SelectQuerySets(model, q) @@ PrefetchQuerySets(model, q)]

\* a projection that flattens to the first field whenever flat is set
ProjectFlatFirst(q, results) ==
    IF Truthy(q["valuesListFields"])
    THEN LET fs == q["valuesListFields"].a
         IN  IF Truthy(q["valuesListFlat"]) /\ Len(fs) >= 1
             THEN [i \in DOMAIN results |-> Prop(results[i], fs[1].s)]
             ELSE [i \in DOMAIN results |->
                      Arr([j \in DOMAIN fs |-> Prop(results[i], fs[j].s)])]
    ELSE results

\* the values-list projection execute() applies to the backend's results
Project(q, results) ==
    IF Truthy(q["valuesListFields"])
    THEN LET fs == q["valuesListFields"].a
         IN  IF Truthy(q["valuesListFlat"]) /\ Len(fs) = 1
             THEN [i \in DOMAIN results |-> Prop(results[i], fs[1].s)]
             ELSE [i \in DOMAIN results |->
                      Arr([j \in DOMAIN fs |-> Prop(results[i], fs[j].s)])]
    ELSE results

-----------------------------------------------------------------------------
(* Bounded inputs of the matcher and of normalizeFilter *)

\* MaxAge ages, from 17 upwards, as attribute values and lookup operands
MaxAge == 2
Ages == {16 + a : a \in 1..MaxAge}

\* every function from a subset of keys to the values allowed for each key
PartialMaps(keys, vals(_)) ==
    UNION {{f \in [S -> UNION {vals(k) : k \in S}] : \A k \in S : f[k] \in vals(k)} :
           S \in SUBSET keys}

\* the entities the matcher is run on (one lacks the age attribute)
MatchItems ==
    {Obj([id |-> Str("u1"), name |-> Str(n), age |-> Num(a)]) : n \in {"Ana", "Bob"}, a \in Ages}
        \cup {Obj([id |-> Str("u1"), name |-> Str("Ana")])}

MatchFieldValues(k) ==
    IF k = "name" THEN {Str("Ana")}
    ELSE {Obj([gte |-> Num(a)]) : a \in Ages}

\* the maps of field conditions a node may carry
MatchFieldMaps == PartialMaps({"name", "age"}, MatchFieldValues)

\* leaves, nodes with any set of logical keys over leaves, and nodes with one
\* logical key over such a node
MatchLeaves == {Obj(fm) : fm \in {f \in MatchFieldMaps : Cardinality(DOMAIN f) <= 1}}
MatchNodes ==
    {Obj(fm @@ lm) : fm \in MatchFieldMaps,
                     lm \in UNION {[S -> MatchLeaves] : S \in SUBSET LogicalKeys}}
MatchNested ==
    {Obj(fm @@ lm) : fm \in {f \in MatchFieldMaps : Cardinality(DOMAIN f) <= 1},
                     lm \in UNION {[{k} -> MatchNodes] : k \in LogicalKeys}}
MatchFilters == MatchNodes \cup MatchNested

NormFieldValues(k) ==
    IF k = "name" THEN {Str("Ana"), Null, Undef, Obj([exact |-> Str("Ana")])}
    ELSE {Arr(<<Str("x")>>), Obj([in |-> Arr(<<Str("x")>>)])}

NormFieldMaps == PartialMaps({"name", "tags"}, NormFieldValues)
NormLeaves == {Obj(fm) : fm \in NormFieldMaps} \cup {Null}
NormNodes ==
    {Obj(fm @@ lm) : fm \in {f \in NormFieldMaps : Cardinality(DOMAIN f) <= 1},
                     lm \in UNION {[S -> NormLeaves] : S \in SUBSET {"AND", "NOT"}}}
NormNested ==
    {Obj(fm @@ lm) : fm \in {f \in NormFieldMaps : "tags" \notin DOMAIN f},
                     lm \in UNION {[{k} -> NormNodes] : k \in {"OR", "NOT"}}}

\* the filters a queryset can hold: never set (undefined), or a filter node
NormInputs == {Undef} \cup NormNodes \cup NormNested

-----------------------------------------------------------------------------
(* Runs of the matcher *)

MatchIdle ==
    /\ mItem = Undef /\ mFilter = Undef /\ mResult = "none" /\ mLegacy = "none"
    /\ lookups = LoadedLookups

MatchInit ==
    /\ mItem \in MatchItems
    /\ mFilter \in MatchFilters
    /\ mResult = "none"
    /\ mLegacy = "none"
    /\ lookups = LoadedLookups

\* the backend calls filterLookup(item, filters) on a stored item
RunMatch ==
    /\ mResult = "none"
    /\ mResult' = IF filterLookup(mItem, mFilter) THEN "true" ELSE "false"
    /\ UNCHANGED <<mItem, mFilter, mLegacy>>
    /\ MatchFrame

\* match(item, filters) of the older queryset/match module: the same code
\* with "eq" for the implicit comparison
RunMatchLegacy ==
    /\ mLegacy = "none"
    /\ mLegacy' = IF match(mItem, mFilter) THEN "true" ELSE "false"
    /\ UNCHANGED <<mItem, mFilter, mResult>>
    /\ MatchFrame

(* Runs of normalizeFilter *)

NormIdle == nInput = Undef /\ nOnce = <<>> /\ nTwice = <<>>

NormInit ==
    /\ nInput \in NormInputs
    /\ nOnce = <<>>
    /\ nTwice = <<>>

NormalizeOnce ==
    /\ nOnce = <<>>
    /\ nOnce' = <<normalizeFilter(nInput)>>
    /\ UNCHANGED <<nInput, nTwice>>
    /\ NormFrame

NormalizeTwice ==
    /\ nOnce # <<>>
    /\ nTwice = <<>>
    /\ nTwice' = <<normalizeFilter(nOnce[1])>>
    /\ UNCHANGED <<nInput, nOnce>>
    /\ NormFrame

-----------------------------------------------------------------------------
(* Chain calls on QuerySet objects of the User model, against a mock backend *)

\* at most MaxQS QuerySet objects are created
MaxQS == 3

QsFilterArgs == {Obj([name |-> Str("Ana")]),
                 Obj([age |-> Obj([gte |-> Num(18)])]),
                 Obj([OR |-> Obj([name |-> Str("Bob")])])}
QsOrderArgs == {<<Str("-age")>>,
                <<Str("name"), Obj([field |-> Str("age"), direction |-> Str("DESC")])>>}
QsLimitArgs == {0, 2}
QsPaginateArgs == {Obj([offset |-> Num(1)]), Obj([limit |-> Num(1), offset |-> Num(0)])}
QsOnlyArgs == {<<Str("name")>>}
QsSelectArgs == {<<Str("group")>>, <<Str("ghost"), Str("nope")>>}
QsPrefetchArgs == {<<Str("tags")>>,
                   <<Str("nope")>>,
                   <<Obj([posts |-> Obj([filters |-> Obj([title |-> Str("x")]),
                                         pagination |-> Obj([limit |-> Num(1)])]),
                          nope |-> Bool(TRUE)])>>}
QsValuesArgs == {<<Str("name"), Obj([flat |-> Bool(TRUE)])>>,
                 <<Str("id"), Str("name"), Obj([flat |-> Bool(TRUE)])>>,
                 <<Str("id"), Str("name")>>}

\* the rows the mock backend resolves execute() to
MockRows == <<Obj([id |-> Str("u1"), name |-> Str("Ana"), age |-> Num(18)]),
              Obj([id |-> Str("u2"), name |-> Str("Bob"), age |-> Num(17)])>>

QsIdle ==
    /\ qsObjs = <<>> /\ heap = <<>> /\ qsCall = [src |-> 0, ret |-> 0]
    /\ execSrc = 0 /\ execOpts = <<>> /\ execResult = <<>>

QsInit ==
    /\ qsObjs = <<NewQuerySet>>
    /\ heap = <<>>
    /\ qsCall = [src |-> 0, ret |-> 0]
    /\ execSrc = 0
    /\ execOpts = <<>>
    /\ execResult = <<>>

\* a chain method called on object i returned the object c.o over the heap c.h
Returned(i, c) ==
    /\ heap' = c.h
    /\ qsObjs' = Append(qsObjs, c.o)
    /\ qsCall' = [src |-> i, ret |-> Len(qsObjs) + 1]
    /\ UNCHANGED <<execSrc, execOpts, execResult>>
    /\ QsFrame

CanChain(i) == i \in DOMAIN qsObjs /\ Len(qsObjs) < MaxQS

CallFilter ==
    \E i \in DOMAIN qsObjs, x \in QsFilterArgs :
        CanChain(i) /\ Returned(i, filter(heap, qsObjs[i], x))

CallExclude ==
    \E i \in DOMAIN qsObjs, x \in QsFilterArgs :
        CanChain(i) /\ Returned(i, exclude(heap, qsObjs[i], x))

CallOrderBy ==
    \E i \in DOMAIN qsObjs, x \in QsOrderArgs :
        CanChain(i) /\ Returned(i, orderBy(heap, qsObjs[i], x))

CallLimit ==
    \E i \in DOMAIN qsObjs, n \in QsLimitArgs :
        CanChain(i) /\ Returned(i, limit(heap, qsObjs[i], n))

CallPaginate ==
    \E i \in DOMAIN qsObjs, x \in QsPaginateArgs :
        CanChain(i) /\ Returned(i, paginate(heap, qsObjs[i], x))

CallOnly ==
    \E i \in DOMAIN qsObjs, x \in QsOnlyArgs :
        CanChain(i) /\ Returned(i, only(heap, qsObjs[i], x))

CallSelectRelated ==
    \E i \in DOMAIN qsObjs, x \in QsSelectArgs :
        CanChain(i) /\ Returned(i, selectRelated(heap, qsObjs[i], x))

CallPrefetchRelated ==
    \E i \in DOMAIN qsObjs, x \in QsPrefetchArgs :
        CanChain(i) /\ Returned(i, prefetchRelated(heap, qsObjs[i], "User", x))

CallValuesList ==
    \E i \in DOMAIN qsObjs, x \in QsValuesArgs :
        CanChain(i) /\ Returned(i, valuesList(heap, qsObjs[i], x))

\* execute() on object i: the options go to the backend, the rows it
\* resolves to are projected
CallExecute ==
    \E i \in DOMAIN qsObjs :
        /\ execSrc' = i
        /\ execOpts' = <<ExecuteOptions("User", View(heap, qsObjs[i]))>>
        /\ execResult' = Project(View(heap, qsObjs[i]), MockRows)
        /\ UNCHANGED <<qsObjs, heap, qsCall>>
        /\ QsFrame

QsNext ==
    \/ CallFilter \/ CallExclude \/ CallOrderBy \/ CallLimit \/ CallPaginate
    \/ CallOnly \/ CallSelectRelated \/ CallPrefetchRelated \/ CallValuesList
    \/ CallExecute

-----------------------------------------------------------------------------
(* The memory backend: execute *)

\* Array.from(map.values()): the stored instances in insertion order
StoredRefs(st) == [i \in DOMAIN st |-> st[i].ref]

\* the comparator handed to results.sort, on instances a and b
RECURSIVE SortCmp(_, _, _)
SortCmp(ordering, a, b) ==
    IF ordering = <<>> THEN 0
    ELSE LET key == Head(ordering)
             dir == IF Prop(key, "direction") = Str("DESC") THEN -1 ELSE 1
             x == Prop(a, Prop(key, "field").s)
             y == Prop(b, Prop(key, "field").s)
             cmp == IF JsLess(y, x) THEN 1 ELSE IF JsLess(x, y) THEN -1 ELSE 0
         IN  IF cmp # 0 THEN cmp * dir ELSE SortCmp(Tail(ordering), a, b)

\* Array.prototype.sort (stable): r goes in front of the first element
\* that compares greater than it
SortInsert(sorted, r, ordering, os) ==
    LET later == {i \in DOMAIN sorted : SortCmp(ordering, os[sorted[i]], os[r]) > 0}
        at == IF later = {} THEN Len(sorted) + 1
              ELSE CHOOSE i \in later : \A j \in later : i <= j
    IN  SubSeq(sorted, 1, at - 1) \o <<r>> \o SubSeq(sorted, at, Len(sorted))

RECURSIVE SortRefs(_, _, _)
SortRefs(refs, ordering, os) ==
    IF refs = <<>> THEN <<>>
    ELSE SortInsert(SortRefs(SubSeq(refs, 1, Len(refs) - 1), ordering, os),
                    refs[Len(refs)], ordering, os)

\* array.slice(from, to) for 0 <= from and 0 <= to
Slice(seq, from, to) == SubSeq(seq, from + 1, IF to < Len(seq) THEN to ELSE Len(seq))

\* execute that cuts the page out of the matching instances and then sorts it
MemoryExecutePageFirst(st, os, options) ==
    LET test(r) == filterLookup(os[r], options.filters)
        filtered(allData) ==
            IF Truthy(options.filters) THEN SelectSeq(allData, test) ELSE allData
        ordering == IF options.ordering.t = "array" THEN options.ordering.a ELSE <<>>
        sorted(results) ==
            IF Len(ordering) > 0 THEN SortRefs(results, ordering, os) ELSE results
        offset == Prop(options.pagination, "offset")
        lim == Prop(options.pagination, "limit")
        skipped(results) ==
            IF offset # Undef THEN Slice(results, offset.n, Len(results)) ELSE results
        page(results) == IF lim # Undef THEN Slice(results, 0, lim.n) ELSE results
    IN  sorted(page(skipped(filtered(StoredRefs(st)))))

\* MemoryBackend.execute(options): filter, sort, offset, limit.  The
\* select-related and prefetch loops that follow run over the selectRelated
\* and prefetchRelated of the options, which are empty here.
MemoryExecute(st, os, options) ==
    LET test(r) == filterLookup(os[r], options.filters)
        filtered(allData) ==
            IF Truthy(options.filters) THEN SelectSeq(allData, test) ELSE allData
        ordering == IF options.ordering.t = "array" THEN options.ordering.a ELSE <<>>
        sorted(results) ==
            IF Len(ordering) > 0 THEN SortRefs(results, ordering, os) ELSE results
        offset == Prop(options.pagination, "offset")
        lim == Prop(options.pagination, "limit")
        skipped(results) ==
            IF offset # Undef THEN Slice(results, offset.n, Len(results)) ELSE results
        page(results) == IF lim # Undef THEN Slice(results, 0, lim.n) ELSE results
    IN  page(skipped(sorted(filtered(StoredRefs(st)))))

-----------------------------------------------------------------------------
(* QuerySet: execute, first, get *)

\* execute(): the instances the backend resolves to, projected when a
\* values list is set
execute(st, os, q) ==
    LET resolved(rows) ==
            IF Truthy(q["valuesListFields"])
            THEN [kind |-> "values",
                  rows |-> Project(q, [i \in DOMAIN rows |-> os[rows[i]]])]
            ELSE [kind |-> "rows", rows |-> rows]
    IN  resolved(MemoryExecute(st, os, ExecuteOptions("User", q)))

\* first() that executes the receiver as it is and rejects when nothing is found
firstOrReject(st, os, q) ==
    LET resolved(results) ==
            IF Len(results) > 0 THEN [kind |-> "entity", ref |-> results[1]]
            ELSE [kind |-> "rejected", error |-> "DoesNotExist"]
    IN  resolved(execute(st, os, q).rows)

\* first()
first(st, os, q) ==
    LET resolved(results) ==
            IF Len(results) > 0 THEN [kind |-> "entity", ref |-> results[1]]
            ELSE [kind |-> "undefined"]
    IN  resolved(execute(st, os, QLimit(q, 1)).rows)

\* get(filters)
get(st, os, q, filters) ==
    LET resolved(result) ==
            IF Len(result) = 0 THEN [kind |-> "rejected", error |-> "DoesNotExist"]
            ELSE IF Len(result) > 1
                 THEN [kind |-> "rejected", error |-> "MultipleObjectsReturned"]
            ELSE [kind |-> "entity", ref |-> result[1]]
    IN  resolved(execute(st, os, QLimit(QFilter(q, filters), 2)).rows)

\* all()
all(st, os, q) == execute(st, os, q)

\* count()
count(st, os, q) ==
    LET resolved(results) == [kind |-> "number", n |-> Len(results)]
    IN  resolved(execute(st, os, q).rows)

\* the methods of a QuerySet that return a QuerySet, and those that return a promise
ChainMethods == {"filter", "exclude", "orderBy", "limit", "paginate", "only",
                 "selectRelated", "prefetchRelated", "values", "valuesList"}
TerminalMethods == {"execute", "all", "first", "count", "get"}

\* the backend.execute calls of execute() on each of the querysets qs of a model
executeEach(model, qs) ==
    [i \in DOMAIN qs |-> [model |-> model, options |-> ExecuteOptions(model, qs[i])]]

\* a count() that executes once for the rows and once more for their number
backendCallsCountTwice(model, method, q, x) ==
    executeEach(model, CASE method \in {"execute", "all"} -> <<q>>
                         [] method = "count" -> <<q, q>>
                         [] method = "first" -> <<QLimit(q, 1)>>
                         [] method = "get" -> <<QLimit(QFilter(q, x), 2)>>
                         [] OTHER -> <<>>)

\* the backend.execute calls a method of a QuerySet of a model makes on its
\* backend, in order, each with its options: execute() makes one; all() and
\* count() call execute(); first() calls limit(1).execute(); get(x) calls
\* filter(x).limit(2).execute(); the other methods clone the receiver and
\* call nothing
backendCalls(model, method, q, x) ==
    executeEach(model, CASE method \in {"execute", "all", "count"} -> <<q>>
                         [] method = "first" -> <<QLimit(q, 1)>>
                         [] method = "get" -> <<QLimit(QFilter(q, x), 2)>>
                         [] OTHER -> <<>>)

\* the keys of an object as a sequence (one order of them)
KeySeq(S) == CHOOSE s \in [1..Cardinality(S) -> S] : \A i, j \in DOMAIN s : s[i] = s[j] => i = j

RECURSIVE Flatten(_)
Flatten(ss) == IF ss = <<>> THEN <<>> ELSE Head(ss) \o Flatten(Tail(ss))

\* MemoryBackend.execute, select related: for a result item and a field f,
\* first() on the related queryset filtered by the target's primary key
relatedTarget(model, f) == RegistryGet(ModelFields(model)[f].model)
selectRelatedCalls(model, options, item, f) ==
    IF \/ f \notin DOMAIN options.relatedQuerySets
       \/ f \notin DOMAIN ModelFields(model)
       \/ ModelFields(model)[f].type # "relation" \/ ModelFields(model)[f].model = ""
       \/ ~Truthy(Prop(item, f)) \/ relatedTarget(model, f) = ""
    THEN <<>>
    ELSE backendCalls(options.relatedQuerySets[f].model, "first",
                      QFilter(options.relatedQuerySets[f].qs,
                              Obj([k \in {PkFieldOf(relatedTarget(model, f))} |-> Prop(item, f)])),
                      Undef)

\* MemoryBackend.execute, prefetch related: for a field f and a result item,
\* execute() on the related queryset filtered by the parent key (reverse) or
\* by the keys of the related items (many to many)
prefetchFilters(model, item, f) ==
    IF ModelFields(model)[f].type = "reverse"
    THEN Obj([k \in {LowerFirst(model) \o ".id"} |-> getPk(item)])
    ELSE Obj([k \in {PkFieldOf(relatedTarget(model, f))} |->
                Obj([in |-> Arr([i \in DOMAIN Prop(item, f).a |->
                                   Prop(Prop(item, f).a[i],
                                        PkFieldOf(relatedTarget(model, f)))])])])
prefetchRelatedCalls(model, options, item, f) ==
    IF \/ f \notin DOMAIN options.relatedQuerySets
       \/ f \notin DOMAIN ModelFields(model)
       \/ ModelFields(model)[f].type \notin {"reverse", "manyToMany"}
       \/ (ModelFields(model)[f].type = "manyToMany"
             /\ (Prop(item, f).t # "array" \/ relatedTarget(model, f) = ""))
    THEN <<>>
    ELSE backendCalls(options.relatedQuerySets[f].model, "execute",
                      QFilter(options.relatedQuerySets[f].qs, prefetchFilters(model, item, f)),
                      Undef)

selectNames(options) ==
    IF options.selectRelated.t = "array" THEN options.selectRelated.a ELSE <<>>
prefetchNames(options) ==
    IF options.prefetchRelated.t = "object"
    THEN KeySeq(DOMAIN options.prefetchRelated.o) ELSE <<>>

\* the backend.execute calls MemoryBackend.execute causes on the backends of
\* related models while it resolves its results
relatedCallsOf(model, os, options, rows) ==
    Flatten([i \in DOMAIN rows |->
        Flatten([j \in DOMAIN selectNames(options) |->
            selectRelatedCalls(model, options, os[rows[i]], selectNames(options)[j].s)])])
    \o
    Flatten([j \in DOMAIN prefetchNames(options) |->
        Flatten([i \in DOMAIN rows |->
            prefetchRelatedCalls(model, options, os[rows[i]], prefetchNames(options)[j])])])

\* those calls for each of the calls own
relatedCalls(model, st, os, own) ==
    Flatten([c \in DOMAIN own |->
        relatedCallsOf(model, os, own[c].options, MemoryExecute(st, os, own[c].options))])

\* all the backend.execute calls a method of a QuerySet causes
withRelated(model, st, os, own) == own \o relatedCalls(model, st, os, own)
executeCalls(model, st, os, method, q, x) ==
    withRelated(model, st, os, backendCalls(model, method, q, x))

-----------------------------------------------------------------------------
(* Runs of execute, first and get on stored data: one call per run *)

\* at most MaxRows users with a name and an age, stored in the order created
MaxRows == 3
RowNames == {"Ana", "Bob"}
RowAges == {17, 18}
UserId(i) == "u" \o ToString(i)
Row(i, n, a) == Obj([id |-> Str(UserId(i)), name |-> Str(n), age |-> Num(a)])
SmallDatasets ==
    UNION {{[i \in 1..k |-> Row(i, f[i][1], f[i][2])] : f \in [1..k -> RowNames \X RowAges]} :
           k \in 0..MaxRows}

\* ten users with the ages 21..30, saved in ascending, descending or mixed order
ScenarioOrders == {<<21, 22, 23, 24, 25, 26, 27, 28, 29, 30>>,
                   <<30, 29, 28, 27, 26, 25, 24, 23, 22, 21>>,
                   <<25, 30, 21, 28, 23, 29, 22, 27, 24, 26>>}
ScenarioDatasets == {[i \in DOMAIN ages |-> Row(i, "Ana", ages[i])] : ages \in ScenarioOrders}

Datasets == SmallDatasets \cup ScenarioDatasets

\* the store after saving the instances of a dataset one after the other
StoreOf(rows) == [i \in DOMAIN rows |-> [key |-> rows[i].o["id"], ref |-> i]]

\* the querysets the terminal methods are called on: Model.objects, then
\* optionally filter or exclude, orderBy, and limit or paginate
ExecFilterArgs == {Obj([name |-> Str("Ana")]), Obj([age |-> Obj([gte |-> Num(18)])])}
ExecExcludeArgs == {Obj([name |-> Str("Ana")])}
ExecOrderArgs == {<<Str("-age")>>, <<Str("age")>>,
                  <<Str("name"), Str("-age")>>, <<Str("-name"), Str("age")>>}
ExecLimitArgs == {0, 3}
ExecPaginateArgs == {Obj([offset |-> Num(1)]),
                     Obj([offset |-> Num(1), limit |-> Num(1)]),
                     Obj([offset |-> Num(2), limit |-> Num(2)])}
ExecGetArgs == {EmptyObj, Obj([name |-> Str("Ana")]), Obj([id |-> Str("u1")])}

ExecFiltered ==
    {DefaultQS} \cup {QFilter(DefaultQS, x) : x \in ExecFilterArgs}
                \cup {QExclude(DefaultQS, x) : x \in ExecExcludeArgs}
ExecOrdered == ExecFiltered \cup {QOrderBy(q, x) : q \in ExecFiltered, x \in ExecOrderArgs}
ExecQuerySets ==
    ExecOrdered \cup {QLimit(q, n) : q \in ExecOrdered, n \in ExecLimitArgs}
                \cup {QPaginate(q, x) : q \in ExecOrdered, x \in ExecPaginateArgs}

\* new MemoryBackend(modelClass): InMemoryStorage and {autoGeneratePk: true}
DefaultBackend == [kind |-> "storage", options |-> Obj([autoGeneratePk |-> Bool(TRUE)])]

DataIdle ==
    /\ objs = <<>> /\ store = <<>> /\ backend = DefaultBackend /\ clock = 1
    /\ lastCall = [op |-> "none"] /\ lastOut = [kind |-> "none"]

ExecInit ==
    /\ \E rows \in Datasets : objs = rows /\ store = StoreOf(rows)
    /\ backend = DefaultBackend
    /\ clock = 1
    /\ lastCall = [op |-> "none"]
    /\ lastOut = [kind |-> "none"]

RunExecute ==
    \E q \in ExecQuerySets :
        /\ lastCall.op = "none"
        /\ lastCall' = [op |-> "execute", q |-> q, expr |-> Undef]
        /\ lastOut' = execute(store, objs, q)
        /\ backendLog' = backendLog \o executeCalls("User", store, objs, "execute", q, Undef)
        /\ UNCHANGED <<objs, store, backend, clock>>
        /\ QueryFrame

RunFirst ==
    \E q \in ExecQuerySets :
        /\ lastCall.op = "none"
        /\ lastCall' = [op |-> "first", q |-> q, expr |-> Undef]
        /\ lastOut' = first(store, objs, q)
        /\ backendLog' = backendLog \o executeCalls("User", store, objs, "first", q, Undef)
        /\ UNCHANGED <<objs, store, backend, clock>>
        /\ QueryFrame

RunGet ==
    \E q \in ExecQuerySets, x \in ExecGetArgs :
        /\ lastCall.op = "none"
        /\ lastCall' = [op |-> "get", q |-> q, expr |-> x]
        /\ lastOut' = get(store, objs, q, x)
        /\ backendLog' = backendLog \o executeCalls("User", store, objs, "get", q, x)
        /\ UNCHANGED <<objs, store, backend, clock>>
        /\ QueryFrame

-----------------------------------------------------------------------------
(* Model instances and MemoryBackend.save *)

\* obj[k] = v
SetProp(obj, k, v) == Obj([x \in DOMAIN obj.o \cup {k} |-> IF x = k THEN v ELSE obj.o[x]])

\* new Date() at time ms
DateAt(ms) == [t |-> "date", ms |-> ms]

\* parseFloat on the numeric strings of the model
ParseFloat(str) == IF str = "41" THEN Num(41) ELSE Num(0)

\* what JSON.parse throws on a text that is not JSON
SyntaxError == [t |-> "thrown", error |-> "SyntaxError"]

\* JSON.parse on the texts of the model
JSONparse(text) ==
    CASE text = "{\"x\":1}" -> Obj([x |-> Num(1)])
      [] text = "{ \"x\": 1 }" -> Obj([x |-> Num(1)])
      [] text = "\"41\"" -> Str("41")
      [] text = "41" -> Num(41)
      [] text = "\"Ana\"" -> Str("Ana")
      [] text = "null" -> Null
      [] OTHER -> SyntaxError

\* JSON.stringify on the values of the model
JSONstringify(v) ==
    CASE v = Obj([x |-> Num(1)]) -> Str("{\"x\":1}")
      [] v = Num(41) -> Str("41")
      [] v = Null -> Str("null")
      [] v.t = "string" -> Str("\"" \o v.s \o "\"")
      [] OTHER -> Undef

\* Date.prototype.toISOString for the first milliseconds of the epoch
toISOString(d) == Str("1970-01-01T00:00:00.00" \o ToString(d.ms) \o "Z")

\* field.toInternal(raw) of the field constructors, undefined ("none") for
\* the kinds that define none
HasToInternal(field) == field.type \in {"number", "date", "json"}
toInternal(field, raw, now) ==
    CASE field.type = "number" -> IF raw.t = "string" THEN ParseFloat(raw.s) ELSE raw
      [] field.type = "date" -> DateAt(now)
      [] field.type = "json" -> IF raw.t = "string" THEN JSONparse(raw.s) ELSE raw
      [] OTHER -> raw

\* field.toExternal(v) of DateField, JSONField and NestedField
toExternal(field, v) ==
    CASE field.type = "date" -> toISOString(v)
      [] field.type = "json" -> JSONstringify(v)
      [] field.type = "nested" -> Obj(v.o)
      [] OTHER -> v

\* an instance of a nested model class, and raw instanceof NestedModel
Instance(cls, o) == [t |-> "object", cls |-> cls, o |-> o]
InstanceOf(v, cls) == v.t = "object" /\ "cls" \in DOMAIN v /\ v.cls = cls

\* normalize(data): a nested field holds data[key] when that is an instance
\* of the nested model and NestedModel.new(data[key] || {}) otherwise; of
\* the other fields the defined attributes, each through toInternal when the
\* field has one; what toInternal throws is thrown
RECURSIVE normalize(_, _, _)
normalize(model, data, now) ==
    LET fields == ModelFields(model)
        nested == {k \in DOMAIN fields : fields[k].type = "nested"}
        keys == nested \cup {k \in DOMAIN fields : Prop(data, k) # Undef}
        made(k, props) == IF props = SyntaxError THEN props
                          ELSE Instance(fields[k].model, props.o)
        value(k) ==
            IF k \in nested
            THEN IF InstanceOf(Prop(data, k), fields[k].model) THEN Prop(data, k)
                 ELSE made(k, normalize(fields[k].model,
                                        IF Truthy(Prop(data, k)) THEN Prop(data, k)
                                        ELSE EmptyObj, now))
            ELSE IF HasToInternal(fields[k])
                 THEN toInternal(fields[k], data.o[k], now)
                 ELSE data.o[k]
    IN  IF \E k \in keys : value(k) = SyntaxError THEN SyntaxError
        ELSE Obj([k \in keys |-> value(k)])

\* Model.new(data): Object.assign(instance, instance.normalize(data))
New(model, data, now) == Spread(EmptyObj, normalize(model, data, now))


\* map.set(k, ref): an existing key keeps its place
MapSet(map, k, ref) ==
    IF \E i \in DOMAIN map : map[i].key = k
    THEN [i \in DOMAIN map |-> IF map[i].key = k THEN [key |-> k, ref |-> ref] ELSE map[i]]
    ELSE Append(map, [key |-> k, ref |-> ref])

\* save that stores the instance under the generated key without assigning it
MemorySaveKeyNotAssigned(st, os, ref, options, gen) ==
    LET auto == ~Truthy(getPk(os[ref])) /\ Truthy(Prop(options, "autoGeneratePk"))
        pk == IF auto THEN Str(gen) ELSE getPk(os[ref])
    IN  IF ~Truthy(pk)
        THEN [store |-> st, objs |-> os,
              out |-> [kind |-> "rejected", error |-> "Missing primary key"]]
        ELSE [store |-> MapSet(st, pk, ref), objs |-> os, out |-> [kind |-> "resolved"]]

\* MemoryBackend.save(instance) on InMemoryStorage: storage.load() copies
\* the Map, storage.save(map) installs a copy of it; gen is what
\* generateFn?.() ?? crypto.randomUUID() yields
MemorySave(st, os, ref, options, gen) ==
    LET auto == ~Truthy(getPk(os[ref])) /\ Truthy(Prop(options, "autoGeneratePk"))
        os1 == IF auto THEN [os EXCEPT ![ref] = SetProp(@, "id", Str(gen))] ELSE os
        pk == getPk(os1[ref])
    IN  IF ~Truthy(pk)
        THEN [store |-> st, objs |-> os1,
              out |-> [kind |-> "rejected", error |-> "Missing primary key"]]
        ELSE [store |-> MapSet(st, pk, ref), objs |-> os1, out |-> [kind |-> "resolved"]]

\* MemoryBackend.save(instance) of the earlier backend, on its own Map
LegacyMemorySave(st, os, ref, options, gen) ==
    LET auto == ~Truthy(getPk(os[ref])) /\ Truthy(Prop(options, "autoGeneratePk"))
        os1 == IF auto THEN [os EXCEPT ![ref] = SetProp(@, "id", Str(gen))] ELSE os
        pk == getPk(os1[ref])
    IN  IF ~Truthy(pk)
        THEN [store |-> st, objs |-> os1,
              out |-> [kind |-> "rejected",
                       error |-> "Instance must have a primary key to be saved in memory backend."]]
        ELSE [store |-> MapSet(st, pk, ref), objs |-> os1, out |-> [kind |-> "resolved"]]

-----------------------------------------------------------------------------
(* Runs of MemoryBackend.save: instances are created and saved one save at *)
(* a time                                                                  *)

MaxObjs == 3
GenKeys == {"g1", "g2"}
BackendKinds == {"storage", "legacy"}
BackendOptions == {Obj([autoGeneratePk |-> Bool(TRUE)]),
                   Obj([autoGeneratePk |-> Bool(FALSE)]),
                   EmptyObj}

\* the data handed to User.new: with a key, with an empty key, without one
StoreNewArgs ==
    {Obj([name |-> Str("Ana")])}
        \cup {Obj([id |-> Str(k), name |-> Str("Ana")]) : k \in {"", "u1", "u2"}}

StoreInit ==
    /\ objs = <<>>
    /\ store = <<>>
    /\ backend \in [kind : BackendKinds, options : BackendOptions]
    /\ clock = 1
    /\ lastCall = [op |-> "none"]
    /\ lastOut = [kind |-> "none"]

\* User.new(data)
NewInstance ==
    \E data \in StoreNewArgs :
        /\ Len(objs) < MaxObjs
        /\ objs' = Append(objs, New("User", data, clock))
        /\ UNCHANGED <<store, backend, clock, lastCall, lastOut>>
        /\ DataFrame

\* what a save call leaves in the state
Saved(ref, r) ==
    /\ lastCall' = [op |-> "save", ref |-> ref, pk |-> getPk(objs[ref]), before |-> store]
    /\ store' = r.store
    /\ objs' = r.objs
    /\ lastOut' = r.out
    /\ UNCHANGED <<backend, clock>>
    /\ DataFrame

\* backend.save(instance) on the backend with a storage
BackendSave ==
    \E ref \in DOMAIN objs, gen \in GenKeys :
        /\ backend.kind = "storage"
        /\ Saved(ref, MemorySave(store, objs, ref, backend.options, gen))

\* backend.save(instance) on the earlier backend
LegacySave ==
    \E ref \in DOMAIN objs, gen \in GenKeys :
        /\ backend.kind = "legacy"
        /\ Saved(ref, LegacyMemorySave(store, objs, ref, backend.options, gen))

-----------------------------------------------------------------------------
(* Model.save and Model.delete *)

\* the validator of the name field: it throws on an empty or missing name
ValidatorThrows(key, value) == key = "name" /\ ~Truthy(value)

\* getSchema(): the fields that carry a validator
SchemaKeys(model) == IF model = "User" THEN {"name"} ELSE {}

\* fullClean() rejects with a ValidationError when a validator throws
fullCleanRejects(model, e) ==
    \E key \in SchemaKeys(model) : ValidatorThrows(key, Prop(e, key))

\* an emit that resolves as soon as one of the handlers has fulfilled
PromiseAnyDone(total, left) == total = 0 \/ left < total

\* Promise.all over the handlers of an emitted signal has resolved: none
\* of the total handlers is left waiting
PromiseAllDone(total, left) == left = 0

\* storage.delete(key): this.data.delete(key)
MapDelete(map, k) ==
    LET keep(entry) == entry.key # k
    IN  SelectSeq(map, keep)

\* the signal names of an operation
OpKind == IF lastCall.op = "Model.delete" THEN "delete" ELSE "save"
PreSignal(kind) == "emit:pre_" \o kind
PostSignal(kind) == "emit:post_" \o kind

-----------------------------------------------------------------------------
(* Runs of Model.save and Model.delete, one operation at a time *)

MaxHandlers == 2
MaxClock == 2
MaxEntities == 1

\* the data handed to User.new, and the values the program assigns later
LifeNewArgs ==
    {Obj([id |-> Str("u1"), name |-> Str("Ana"), joined |-> Str("2020-01-01")]),
     Obj([name |-> Str("Ana"), age |-> Num(17)])}
LifeAssignments == {<<"name", Str("")>>, <<"age", Str("41")>>}

LifeIdle == handlers = [pre |-> 0, post |-> 0] /\ pc = "idle" /\ waiting = 0 /\ log = <<>>

LifeInit ==
    /\ objs = <<>>
    /\ store = <<>>
    /\ backend \in [kind : {"storage"},
                    options : {Obj([autoGeneratePk |-> Bool(TRUE)]),
                               Obj([autoGeneratePk |-> Bool(FALSE)])}]
    /\ clock = 1
    /\ lastCall = [op |-> "none"]
    /\ lastOut = [kind |-> "none"]
    /\ \E n \in 0..MaxHandlers : handlers = [pre |-> n, post |-> n]
    /\ pc = "idle"
    /\ waiting = 0
    /\ log = <<>>

AtRest == pc \in {"idle", "done"}

\* time passes
Tick ==
    /\ clock < MaxClock
    /\ clock' = clock + 1
    /\ UNCHANGED <<objs, store, backend, lastCall, lastOut, lifeVars>>
    /\ LifeFrame

\* User.new(data)
LifeNew ==
    \E data \in LifeNewArgs :
        /\ AtRest
        /\ Len(objs) < MaxEntities
        /\ objs' = Append(objs, New("User", data, clock))
        /\ UNCHANGED <<store, backend, clock, lastCall, lastOut, lifeVars>>
        /\ LifeFrame

\* instance[key] = value in the program
SetAttr ==
    \E ref \in DOMAIN objs, kv \in LifeAssignments :
        /\ AtRest
        /\ objs' = [objs EXCEPT ![ref] = SetProp(@, kv[1], kv[2])]
        /\ UNCHANGED <<store, backend, clock, lastCall, lastOut, lifeVars>>
        /\ LifeFrame

\* instance.save(validate) up to its first await: the instance is
\* normalized in place, fullClean runs when validate is set, and without
\* validation the pre_save signal is emitted in the same turn
CallSave ==
    \E ref \in DOMAIN objs, validate \in BOOLEAN :
        LET e == Spread(objs[ref], normalize("User", objs[ref], clock))
            failed == validate /\ fullCleanRejects("User", e)
        IN  /\ AtRest
            /\ objs' = [objs EXCEPT ![ref] = e]
            /\ lastCall' = [op |-> "Model.save", ref |-> ref, validate |-> validate]
            /\ log' = <<"normalize">> \o
                      (IF failed THEN <<"fullClean:failed">>
                       ELSE IF validate THEN <<"fullClean">>
                       ELSE <<PreSignal("save")>>)
            /\ pc' = IF failed THEN "done" ELSE IF validate THEN "validated" ELSE "pre"
            /\ waiting' = IF validate THEN 0 ELSE handlers.pre
            /\ lastOut' = IF failed THEN [kind |-> "rejected", error |-> "ValidationError"]
                          ELSE [kind |-> "pending"]
            /\ UNCHANGED <<store, backend, clock, handlers>>
            /\ LifeFrame

\* after fullClean resolved: signals.emit("pre_save") calls every handler
EmitPre ==
    /\ pc = "validated"
    /\ log' = Append(log, PreSignal("save"))
    /\ pc' = "pre"
    /\ waiting' = handlers.pre
    /\ UNCHANGED <<dataVars, handlers>>
    /\ LifeFrame

\* a handler of the emitted signal settles; a rejection rejects the
\* Promise.all and with it the operation
HandlerSettles ==
    \E ok \in BOOLEAN :
        /\ pc \in {"pre", "post"}
        /\ waiting > 0
        /\ log' = Append(log, IF ok THEN "handler:ok" ELSE "handler:failed")
        /\ waiting' = IF ok THEN waiting - 1 ELSE 0
        /\ pc' = IF ok THEN pc ELSE "done"
        /\ lastOut' = IF ok THEN lastOut ELSE [kind |-> "rejected", error |-> "HandlerError"]
        /\ UNCHANGED <<objs, store, backend, clock, lastCall, handlers>>
        /\ LifeFrame

\* after emit("pre_save") resolved: qs.save(this.beforeSave()), which is
\* backend.save(instance); its rejection is the rejection of save()
BackendWrite ==
    \E gen \in GenKeys :
        LET r == MemorySave(store, objs, lastCall.ref, backend.options, gen)
        IN  /\ pc = "pre"
            /\ lastCall.op = "Model.save"
            /\ PromiseAllDone(handlers.pre, waiting)
            /\ store' = r.store
            /\ objs' = r.objs
            /\ log' = Append(log, IF r.out.kind = "rejected" THEN "backend.save:failed"
                                  ELSE "backend.save")
            /\ pc' = IF r.out.kind = "rejected" THEN "done" ELSE "written"
            /\ lastOut' = IF r.out.kind = "rejected" THEN r.out ELSE lastOut
            /\ UNCHANGED <<backend, clock, lastCall, handlers, waiting>>
            /\ LifeFrame

\* instance.delete() up to its first await: signals.emit("pre_delete")
CallDelete ==
    \E ref \in DOMAIN objs :
        /\ AtRest
        /\ lastCall' = [op |-> "Model.delete", ref |-> ref, validate |-> FALSE]
        /\ log' = <<PreSignal("delete")>>
        /\ pc' = "pre"
        /\ waiting' = handlers.pre
        /\ lastOut' = [kind |-> "pending"]
        /\ UNCHANGED <<objs, store, backend, clock, handlers>>
        /\ LifeFrame

\* after emit("pre_delete") resolved: qs.delete(this), which is
\* backend.delete(instance): storage.delete(instance.getPk())
BackendRemove ==
    /\ pc = "pre"
    /\ lastCall.op = "Model.delete"
    /\ PromiseAllDone(handlers.pre, waiting)
    /\ store' = MapDelete(store, getPk(objs[lastCall.ref]))
    /\ log' = Append(log, "backend.delete")
    /\ pc' = "written"
    /\ UNCHANGED <<objs, backend, clock, lastCall, lastOut, handlers, waiting>>
    /\ LifeFrame

\* after the backend call resolved: signals.emit of the post signal
EmitPost ==
    /\ pc = "written"
    /\ log' = Append(log, PostSignal(OpKind))
    /\ pc' = "post"
    /\ waiting' = handlers.post
    /\ UNCHANGED <<dataVars, handlers>>
    /\ LifeFrame

\* after the post signal resolved: the operation resolves
Resolve ==
    /\ pc = "post"
    /\ PromiseAllDone(handlers.post, waiting)
    /\ pc' = "done"
    /\ lastOut' = [kind |-> "resolved"]
    /\ UNCHANGED <<objs, store, backend, clock, lastCall, handlers, waiting, log>>
    /\ LifeFrame

-----------------------------------------------------------------------------
(* MemoryBackend.delete and the two storages *)

\* JSON.stringify(value) and JSON.parse of it, for an entity: the defined
\* own properties
JsonCopy(e) == Obj([k \in {x \in DOMAIN e.o : e.o[x] # Undef} |-> e.o[k]])

\* JSON.stringify(map) of a Map, parsed again: a Map has no enumerable own
\* properties, the text is "{}"
JsonCopyOfMap(map) == <<>>

\* LocalStorageStorage.delete(key): load(), data.delete(key), then
\* localStorage.setItem(key, JSON.stringify(data)) of the Map
LocalStorageDelete(item, k) == JsonCopyOfMap(MapDelete(item, k))

\* map.set(pk, instance) on the Map load() built from the item, written
\* back by LocalStorageStorage.save as JSON.stringify of a plain object;
\* the item is kept as the entries of the parsed text
LocalMapSet(item, k, e) ==
    IF \E i \in DOMAIN item : item[i].key = k
    THEN [i \in DOMAIN item |-> IF item[i].key = k THEN [key |-> k, data |-> e] ELSE item[i]]
    ELSE Append(item, [key |-> k, data |-> e])

\* MemoryBackend.save(instance) on LocalStorageStorage
LocalMemorySave(item, os, ref, options, gen) ==
    LET auto == ~Truthy(getPk(os[ref])) /\ Truthy(Prop(options, "autoGeneratePk"))
        os1 == IF auto THEN [os EXCEPT ![ref] = SetProp(@, "id", Str(gen))] ELSE os
        pk == getPk(os1[ref])
    IN  IF ~Truthy(pk)
        THEN [store |-> item, objs |-> os1,
              out |-> [kind |-> "rejected", error |-> "Missing primary key"]]
        ELSE [store |-> LocalMapSet(item, pk, JsonCopy(os1[ref])), objs |-> os1,
              out |-> [kind |-> "resolved"]]

\* MemoryBackend.delete(instance): storage.delete(instance.getPk())
MemoryDelete(kind, st, e) ==
    IF kind = "local" THEN LocalStorageDelete(st, getPk(e)) ELSE MapDelete(st, getPk(e))

\* delete(instance) of the earlier backend: nothing without a primary key
LegacyMemoryDelete(st, e) == IF ~Truthy(getPk(e)) THEN st ELSE MapDelete(st, getPk(e))

-----------------------------------------------------------------------------
(* Runs of MemoryBackend.delete: instances are created, saved and deleted *)

DeleteBackendKinds == {"storage", "local", "legacy"}

DeleteInit ==
    /\ objs = <<>>
    /\ store = <<>>
    /\ backend \in [kind : DeleteBackendKinds, options : {DefaultBackend.options}]
    /\ clock = 1
    /\ lastCall = [op |-> "none"]
    /\ lastOut = [kind |-> "none"]

\* backend.save(instance) on the backend with a LocalStorageStorage
LocalSave ==
    \E ref \in DOMAIN objs, gen \in GenKeys :
        /\ backend.kind = "local"
        /\ Saved(ref, LocalMemorySave(store, objs, ref, backend.options, gen))

\* backend.delete(instance)
BackendDelete ==
    \E ref \in DOMAIN objs :
        /\ lastCall' = [op |-> "delete", ref |-> ref, pk |-> getPk(objs[ref]),
                        before |-> store]
        /\ store' = IF backend.kind = "legacy" THEN LegacyMemoryDelete(store, objs[ref])
                    ELSE MemoryDelete(backend.kind, store, objs[ref])
        /\ lastOut' = [kind |-> "resolved"]
        /\ UNCHANGED <<objs, backend, clock>>
        /\ DataFrame

-----------------------------------------------------------------------------
(* ModelRegistry: register and validate *)

\* a model class as a value
Class(name) == [t |-> "class", name |-> name]

\* the model classes of the registry runs and their static fields, in the
\* order Object.entries yields them
RegClasses == {"Group", "BankAccount", "Broken", "CustomReverse", "Membership"}
StaticFieldNames(c) ==
    CASE c = "Group" -> <<"id", "name", "users">>
      [] c = "BankAccount" -> <<"id", "name", "group">>
      [] OTHER -> <<"group">>
StaticFields(c) ==
    CASE c = "Group" ->
            [id |-> Obj([type |-> Str("string")]), name |-> Obj([type |-> Str("string")]),
             users |-> Obj([type |-> Str("reverse"), model |-> Str("User")])]
      [] c = "BankAccount" ->
            [id |-> Obj([type |-> Str("string")]), name |-> Obj([type |-> Str("string")]),
             group |-> Obj([type |-> Str("relation"), model |-> Str("Group")])]
      [] c = "Broken" ->
            [group |-> Obj([type |-> Str("relation"), model |-> Str("Unknown")])]
      [] c = "CustomReverse" ->
            [group |-> Obj([type |-> Str("relation"), model |-> Str("Group"),
                            relatedName |-> Str("customGroupAccounts")])]
      [] c = "Category" ->
            [id |-> Obj([type |-> Str("string")]), name |-> Obj([type |-> Str("string")]),
             category |-> Obj([type |-> Str("relation"), model |-> Str("Category")]),
             children |-> Obj([type |-> Str("reverse"), model |-> Str("Category")]),
             owner |-> Obj([type |-> Str("relation"), model |-> Str("Category")]),
             owned |-> Obj([type |-> Str("reverse"), model |-> Str("Category"),
                            relatedName |-> Str("owner")])]
      [] OTHER ->
            [group |-> Obj([type |-> Str("relation"), model |-> Class("Group")])]

\* this.models.has(name) and this.models.get(name); a key that is not a
\* string is never present
MapHas(map, k) == \E i \in DOMAIN map : Str(map[i].name) = k
MapGet(map, k) ==
    IF MapHas(map, k) THEN Class(map[CHOOSE i \in DOMAIN map : Str(map[i].name) = k].class)
    ELSE Undef

\* register that stamps the class before it looks for the name
registerStampFirst(ms, st, r, c, name) ==
    LET modelName == IF Truthy(name) THEN name ELSE Str(c)
    IN  IF MapHas(ms[r], modelName)
        THEN [models |-> ms, stamped |-> [st EXCEPT ![c] = r],
              out |-> [kind |-> "thrown", error |-> "ModelAlreadyRegistered"]]
        ELSE [models |-> [ms EXCEPT ![r] = Append(@, [name |-> modelName.s, class |-> c])],
              stamped |-> [st EXCEPT ![c] = r],
              out |-> [kind |-> "returned"]]

\* register(modelClass, name) on registry r
register(ms, st, r, c, name) ==
    LET modelName == IF Truthy(name) THEN name ELSE Str(c)
    IN  IF MapHas(ms[r], modelName)
        THEN [models |-> ms, stamped |-> st,
              out |-> [kind |-> "thrown", error |-> "ModelAlreadyRegistered"]]
        ELSE [models |-> [ms EXCEPT ![r] = Append(@, [name |-> modelName.s, class |-> c])],
              stamped |-> [st EXCEPT ![c] = r],
              out |-> [kind |-> "returned"]]

\* the names a model prototype has before any accessor is defined
PrototypeNames == {"constructor", "save", "delete", "getPk", "normalize", "fullClean",
                   "getRelated", "getRelatedMany"}

\* reverseName in relatedModel.prototype
InPrototype(ps, c, name) == name \in PrototypeNames \/ \E a \in ps[c] : a.name = name

\* the (model, field) pairs validate() visits, in order
FieldPairs(map) ==
    LET pairsOf(c) == [j \in DOMAIN StaticFieldNames(c) |->
                          [model |-> c, field |-> StaticFieldNames(c)[j]]]
        RECURSIVE cat(_)
        cat(i) == IF i > Len(map) THEN <<>> ELSE pairsOf(map[i].class) \o cat(i + 1)
    IN  cat(1)

\* the loop body of validate() from pair i on: a relation field whose
\* target this.get does not find throws; otherwise the reverse accessor is
\* defined on the target's prototype unless the name is in it already
RECURSIVE validateFrom(_, _, _, _)
validateFrom(pairs, i, map, ps) ==
    IF i > Len(pairs) THEN [protos |-> ps, out |-> [kind |-> "returned"]]
    ELSE LET model == pairs[i].model
             fieldName == pairs[i].field
             field == StaticFields(model)[fieldName]
             relatedModel == MapGet(map, Prop(field, "model"))
             reverseName == IF Truthy(Prop(field, "reverseName"))
                            THEN Prop(field, "reverseName").s
                            ELSE LowerFirst(model) \o "Set"
             accessor == [name |-> reverseName, model |-> model, field |-> fieldName]
         IN  IF Prop(field, "type") # Str("relation")
             THEN validateFrom(pairs, i + 1, map, ps)
             ELSE IF ~Truthy(relatedModel)
             THEN [protos |-> ps,
                   out |-> [kind |-> "thrown", error |-> "RelatedModelNotFoundError"]]
             ELSE IF InPrototype(ps, relatedModel.name, reverseName)
             THEN validateFrom(pairs, i + 1, map, ps)
             ELSE validateFrom(pairs, i + 1, map,
                               [ps EXCEPT ![relatedModel.name] = @ \cup {accessor}])

\* validate() on a registry holding map
validate(map, ps) == validateFrom(FieldPairs(map), 1, map, ps)

\* getRelatedMany(fieldKey) of an instance of class c with primary key pk
getRelatedMany(c, map, pk, fieldKey) ==
    LET fields == StaticFields(c)
        field == IF fieldKey \in DOMAIN fields THEN fields[fieldKey] ELSE Undef
        target == Prop(field, "model")
        relatedModel == IF target.t = "string" THEN MapGet(map, target) ELSE target
        reverseKey == IF Prop(field, "relatedName") \in {Undef, Null}
                      THEN LowerFirst(c) ELSE Prop(field, "relatedName").s
    IN  IF ~Truthy(field) \/ Prop(field, "type") \notin {Str("reverse"), Str("manyToMany")}
        THEN [kind |-> "thrown", error |-> "InvalidRelationFieldError"]
        ELSE IF ~Truthy(relatedModel)
        THEN [kind |-> "thrown", error |-> "RelatedModelNotFoundError"]
        ELSE [kind |-> "queryset", model |-> relatedModel.name,
              q |-> QFilter(DefaultQS, Obj([k \in {reverseKey \o ".id"} |-> pk]))]

-----------------------------------------------------------------------------
(* Runs of register, validate and the reverse accessors on two registries *)

MaxModels == 3
RegIds == {1, 2}
RegNameArgs == {Undef, Str(""), Str("Group")}

RegIdle ==
    /\ models = <<>> /\ stamped = <<>> /\ protos = <<>>
    /\ regCall = [op |-> "none"] /\ regOut = [kind |-> "none"]

\* two empty registries; Model.registry of every class is the first, the
\* module's registry
RegInit ==
    /\ models = [r \in RegIds |-> <<>>]
    /\ stamped = [c \in RegClasses |-> 1]
    /\ protos = [c \in RegClasses |-> {}]
    /\ regCall = [op |-> "none"]
    /\ regOut = [kind |-> "none"]

\* registry.register(modelClass, name)
Register ==
    \E r \in RegIds, c \in RegClasses, name \in RegNameArgs :
        LET res == register(models, stamped, r, c, name)
        IN  /\ Len(models[1]) + Len(models[2]) < MaxModels
            /\ regCall' = [op |-> "register", registry |-> r, class |-> c, name |-> name]
            /\ models' = res.models
            /\ stamped' = res.stamped
            /\ regOut' = res.out
            /\ UNCHANGED protos
            /\ RegFrame

\* registry.validate()
Validate ==
    \E r \in RegIds :
        LET res == validate(models[r], protos)
        IN  /\ regCall' = [op |-> "validate", registry |-> r]
            /\ protos' = res.protos
            /\ regOut' = res.out
            /\ UNCHANGED <<models, stamped>>
            /\ RegFrame

\* instance[name]() on an instance of class c with primary key "1": the
\* accessor calls this.getRelatedMany(model.name, fieldName)
CallAccessor ==
    \E c \in RegClasses :
        \E a \in protos[c] :
            /\ regCall' = [op |-> "accessor", class |-> c, name |-> a.name]
            /\ regOut' = getRelatedMany(c, models[stamped[c]], Str("1"), a.model)
            /\ UNCHANGED <<models, stamped, protos>>
            /\ RegFrame

-----------------------------------------------------------------------------
(* Model.prepareRelated and Model.getRelated *)

\* prepareRelated that treats a field of any type as a relation
prepareRelatedAnyField(e, cls, fieldKey) ==
    LET fields == ModelFields(cls)
        known == fieldKey \in DOMAIN fields
        value == Prop(e, fieldKey)
        id == IF TypeofObject(value) /\ value # Null THEN Prop(value, "id") ELSE value
    IN  IF ~known
        THEN [kind |-> "thrown", error |-> "InvalidRelationFieldError"]
        ELSE IF RegistryGet(fields[fieldKey].model) = ""
        THEN [kind |-> "thrown", error |-> "RelatedModelNotFoundError"]
        ELSE [kind |-> "queryset", model |-> RegistryGet(fields[fieldKey].model),
              q |-> QFilter(DefaultQS, Obj([id |-> id]))]

\* prepareRelated(fieldKey) of an instance e of class cls: the queryset of
\* the target model filtered by {id}, id being the value of the field or,
\* for an object, its id
prepareRelated(e, cls, fieldKey) ==
    LET fields == ModelFields(cls)
        known == fieldKey \in DOMAIN fields
        value == Prop(e, fieldKey)
        id == IF TypeofObject(value) /\ value # Null THEN Prop(value, "id") ELSE value
    IN  IF ~known \/ fields[fieldKey].type # "relation" \/ fields[fieldKey].model = ""
        THEN [kind |-> "thrown", error |-> "InvalidRelationFieldError"]
        ELSE IF RegistryGet(fields[fieldKey].model) = ""
        THEN [kind |-> "thrown", error |-> "RelatedModelNotFoundError"]
        ELSE [kind |-> "queryset", model |-> RegistryGet(fields[fieldKey].model),
              q |-> QFilter(DefaultQS, Obj([id |-> id]))]

\* getRelated(fieldKey): prepareRelated(fieldKey).first(); what
\* prepareRelated throws rejects the promise.  sts holds the Map of each
\* target model's backend.
getRelated(sts, os, e, cls, fieldKey) ==
    LET resolved(prepared) ==
            IF prepared.kind = "thrown"
            THEN [kind |-> "rejected", error |-> prepared.error]
            ELSE first(sts[prepared.model], os, prepared.q)
    IN  resolved(prepareRelated(e, cls, fieldKey))

-----------------------------------------------------------------------------
(* Runs of getRelated: groups and badges are stored, each model on its own *)
(* backend, and a member refers to them                                    *)

MaxTargets == 2
TargetIndex == 1..MaxTargets
GroupRow(i) == Obj([id |-> Str("g" \o ToString(i)), name |-> Str("Ana")])

\* a badge is keyed by its code; some badges also carry an id attribute
BadgeRows(i) ==
    {Obj([code |-> Str("c" \o ToString(i))])}
        \cup {Obj([code |-> Str("c" \o ToString(i)), id |-> Str("c" \o ToString(j))]) :
                j \in TargetIndex \ {i}}

\* the value a member holds in a relation field: nothing, a bare id, or an
\* object carrying an id
ForeignValues(prefix) ==
    {Undef, Null, EmptyObj}
        \cup {Str(prefix \o ToString(i)) : i \in 1..(MaxTargets + 1)}
        \cup {Obj([id |-> Str(prefix \o ToString(i))]) : i \in 1..(MaxTargets + 1)}

MemberRows ==
    {Obj([id |-> Str("m1"), name |-> Str("Bob"), group |-> g, badge |-> Undef, ghost |-> g]) :
        g \in ForeignValues("g")}
      \cup {Obj([id |-> Str("m1"), name |-> Str("Bob"), group |-> Undef, badge |-> b,
                 ghost |-> Undef]) : b \in ForeignValues("c")}

RelFieldKeys == {"group", "badge", "ghost", "name", "posts", "missing"}

\* the Map a backend holds after the instances at the references refs were
\* saved in that order
SavedMap(os, refs, pkField) ==
    [i \in DOMAIN refs |-> [key |-> Prop(os[refs[i]], pkField), ref |-> refs[i]]]

\* the first n groups and the first k badges are stored; the member is the
\* last instance
RelInit ==
    /\ \E n \in 0..MaxTargets, k \in 0..MaxTargets :
         \E badges \in [1..k -> UNION {BadgeRows(i) : i \in TargetIndex}], member \in MemberRows :
            /\ \A i \in 1..k : badges[i] \in BadgeRows(i)
            /\ objs = [i \in 1..n |-> GroupRow(i)] \o badges \o <<member>>
            /\ store = [Group |-> SavedMap(objs, [i \in 1..n |-> i], "id"),
                        Badge |-> SavedMap(objs, [i \in 1..k |-> n + i], "code")]
    /\ backend = DefaultBackend
    /\ clock = 1
    /\ lastCall = [op |-> "none"]
    /\ lastOut = [kind |-> "none"]

\* member.getRelated(fieldKey)
RunGetRelated ==
    \E fieldKey \in RelFieldKeys :
        /\ lastCall.op = "none"
        /\ lastCall' = [op |-> "getRelated", ref |-> Len(objs), fieldKey |-> fieldKey]
        /\ lastOut' = getRelated(store, objs, objs[Len(objs)], "Member", fieldKey)
        /\ backendLog' =
              LET called(prepared) ==
                      IF prepared.kind = "thrown" THEN <<>>
                      ELSE executeCalls(prepared.model, store[prepared.model], objs,
                                        "first", prepared.q, Undef)
              IN  backendLog \o called(prepareRelated(objs[Len(objs)], "Member", fieldKey))
        /\ UNCHANGED <<objs, store, backend, clock>>
        /\ QueryFrame

-----------------------------------------------------------------------------
(* Runs of chained calls: a group's users queryset or User.objects is     *)
(* filtered, ordered and paginated, and terminal methods are called on it *)

\* the calls of one run, and the groups the users belong to
MaxCalls == 4
LazyGroups == {"g1", "g2"}
UserOf(i, g) == Obj([id |-> Str(UserId(i)), name |-> Str("Ana"), group |-> Obj([id |-> Str(g)])])
LazyDatasets ==
    {[i \in 1..k |-> UserOf(i, IF i % 2 = 1 THEN "g1" ELSE "g2")] : k \in 1..MaxRows}

\* the registry of the run: Group and User are registered
LazyRegistry == <<[name |-> "Group", class |-> "Group"], [name |-> "User", class |-> "User"]>>
LazyFieldKeys == {"users", "name"}
LazyFilterArgs == {Obj([id |-> Str("u2")])}
LazyOrderArgs == {<<Str("-id")>>}
LazyPaginateArgs == {Obj([offset |-> Num(1), limit |-> Num(1)])}

\* users are stored; no group is
LazyInit ==
    /\ \E rows \in LazyDatasets : objs = rows /\ store = StoreOf(rows)
    /\ backend = DefaultBackend
    /\ clock = 1
    /\ lastCall = [op |-> "none", n |-> 0, q |-> DefaultQS, x |-> Undef]
    /\ lastOut = [kind |-> "none"]

\* the queryset the next call is made on: the one the last call returned,
\* else the one the last call was made on (User.objects at first)
Receiver == IF lastOut.kind = "queryset" THEN lastOut.q ELSE lastCall.q

\* what a call of a run leaves in the state; calls are what backend.execute received
Called(method, x, out, calls) ==
    /\ lastCall.n < MaxCalls
    /\ lastCall' = [op |-> method, n |-> lastCall.n + 1, q |-> Receiver, x |-> x]
    /\ lastOut' = out
    /\ backendLog' = backendLog \o calls
    /\ UNCHANGED <<objs, store, backend, clock>>
    /\ QueryFrame

\* group.getRelatedMany(fieldKey) on a new group instance with the key pk
LazyGetRelatedMany ==
    \E pk \in LazyGroups, fieldKey \in LazyFieldKeys :
        /\ lastCall.op = "none"
        /\ Called("getRelatedMany", Str(fieldKey),
                  getRelatedMany("Group", LazyRegistry, Str(pk), fieldKey), <<>>)

LazyFilter ==
    \E x \in LazyFilterArgs :
        Called("filter", x, [kind |-> "queryset", model |-> "User", q |-> QFilter(Receiver, x)],
               executeCalls("User", store, objs, "filter", Receiver, x))

LazyOrderBy ==
    \E x \in LazyOrderArgs :
        Called("orderBy", Arr(x),
               [kind |-> "queryset", model |-> "User", q |-> QOrderBy(Receiver, x)],
               executeCalls("User", store, objs, "orderBy", Receiver, Arr(x)))

LazyPaginate ==
    \E x \in LazyPaginateArgs :
        Called("paginate", x,
               [kind |-> "queryset", model |-> "User", q |-> QPaginate(Receiver, x)],
               executeCalls("User", store, objs, "paginate", Receiver, x))

\* the other chain methods, each with one argument list
LazyChainArgs ==
    [exclude |-> Obj([id |-> Str("u1")]), limit |-> Num(1), only |-> Arr(<<Str("name")>>),
     selectRelated |-> Arr(<<Str("group")>>), prefetchRelated |-> Arr(<<Str("tags")>>)]

\* the argument lists of valuesList: one field or two, with and without flat
LazyValuesArgs == {<<Str("name"), Obj([flat |-> Bool(TRUE)])>>,
                   <<Str("name")>>,
                   <<Str("id"), Str("name"), Obj([flat |-> Bool(TRUE)])>>,
                   <<Str("id"), Str("name")>>}

LazyExclude ==
    LET x == LazyChainArgs.exclude
    IN  Called("exclude", x, [kind |-> "queryset", model |-> "User", q |-> QExclude(Receiver, x)],
               executeCalls("User", store, objs, "exclude", Receiver, x))

LazyLimit ==
    LET x == LazyChainArgs.limit
    IN  Called("limit", x, [kind |-> "queryset", model |-> "User", q |-> QLimit(Receiver, x.n)],
               executeCalls("User", store, objs, "limit", Receiver, x))

LazyOnly ==
    LET x == LazyChainArgs.only
    IN  Called("only", x, [kind |-> "queryset", model |-> "User", q |-> QOnly(Receiver, x.a)],
               executeCalls("User", store, objs, "only", Receiver, x))

LazySelectRelated ==
    LET x == LazyChainArgs.selectRelated
    IN  Called("selectRelated", x,
               [kind |-> "queryset", model |-> "User", q |-> QSelectRelated(Receiver, x.a)],
               executeCalls("User", store, objs, "selectRelated", Receiver, x))

LazyPrefetchRelated ==
    LET x == LazyChainArgs.prefetchRelated
    IN  Called("prefetchRelated", x,
               [kind |-> "queryset", model |-> "User",
                q |-> QPrefetchRelated("User", Receiver, x.a)],
               executeCalls("User", store, objs, "prefetchRelated", Receiver, x))

LazyValuesList ==
    \E x \in LazyValuesArgs :
        Called("valuesList", Arr(x),
               [kind |-> "queryset", model |-> "User", q |-> QValuesList(Receiver, x)],
               executeCalls("User", store, objs, "valuesList", Receiver, Arr(x)))

LazyExecute ==
    Called("execute", Undef, execute(store, objs, Receiver),
           executeCalls("User", store, objs, "execute", Receiver, Undef))

LazyAll ==
    Called("all", Undef, all(store, objs, Receiver),
           executeCalls("User", store, objs, "all", Receiver, Undef))

LazyFirst ==
    Called("first", Undef, first(store, objs, Receiver),
           executeCalls("User", store, objs, "first", Receiver, Undef))

LazyCount ==
    Called("count", Undef, count(store, objs, Receiver),
           executeCalls("User", store, objs, "count", Receiver, Undef))

LazyGet ==
    \E x \in LazyFilterArgs :
        Called("get", x, get(store, objs, Receiver, x),
               executeCalls("User", store, objs, "get", Receiver, x))

-----------------------------------------------------------------------------
(* Runs of normalize and of the field conversions on an Event, a model with *)
(* a field of every kind                                                   *)

\* the first instants of the epoch as ISO texts, and JSON texts
DateTexts == {toISOString(DateAt(ms)) : ms \in 0..MaxClock}
JsonTexts == {Str("{\"x\":1}"), Str("{ \"x\": 1 }"), Str("\"41\""), Str("41"),
              Str("\"Ana\""), Str("null")}

\* the object holding the defined values of f
Defined(f) == Obj([k \in {x \in DOMAIN f : f[x] # Undef} |-> f[k]])

\* the data handed to Event.new: each attribute absent, raw, or already internal
EventData ==
    {Defined(f) : f \in [seats : {Undef, Str("41"), Num(41)},
                         at : {Undef, toISOString(DateAt(0)), DateAt(0)},
                         meta : {Undef, Str("{\"x\":1}"), Str("\"41\""), Str("\"Ana\""),
                                 Obj([x |-> Num(1)])},
                         group : {Undef, Str("g1"), Obj([id |-> Str("g1")])},
                         address : {Undef, Null,
                                    Obj([city |-> Str("Rio"), zip |-> Str("41")])}]}

ConvertedFields == {[type |-> "date", model |-> ""], [type |-> "json", model |-> ""]}
ExternalInputs(field) == IF field.type = "date" THEN DateTexts ELSE JsonTexts

FieldsInit ==
    /\ objs = <<>>
    /\ store = <<>>
    /\ backend = DefaultBackend
    /\ clock = 1
    /\ lastCall = [op |-> "none"]
    /\ lastOut = [kind |-> "none"]

\* what a call returned or threw
Outcome(r) == IF r = SyntaxError THEN [kind |-> "thrown", error |-> r.error]
              ELSE [kind |-> "returned", value |-> r]

\* Event.new(data)
EventNew ==
    \E data \in EventData :
        /\ objs = <<>>
        /\ lastCall' = [op |-> "new", data |-> data]
        /\ lastOut' = Outcome(normalize("Event", data, clock))
        /\ objs' = IF normalize("Event", data, clock) = SyntaxError THEN objs
                   ELSE <<New("Event", data, clock)>>
        /\ UNCHANGED <<store, backend, clock>>
        /\ DataFrame

\* event.normalize(event)
NormalizeAgain ==
    \E ref \in DOMAIN objs :
        /\ lastCall' = [op |-> "normalize", ref |-> ref]
        /\ lastOut' = Outcome(normalize("Event", objs[ref], clock))
        /\ UNCHANGED <<objs, store, backend, clock>>
        /\ DataFrame

\* field.toExternal(field.toInternal(x)) of a DateField or a JSONField
RoundTrip ==
    \E field \in ConvertedFields :
        \E x \in ExternalInputs(field) :
            /\ lastCall' = [op |-> "roundTrip", field |-> field, x |-> x]
            /\ lastOut' = IF toInternal(field, x, clock) = SyntaxError
                          THEN Outcome(SyntaxError)
                          ELSE [kind |-> "returned",
                                internal |-> toInternal(field, x, clock),
                                value |-> toExternal(field, toInternal(field, x, clock))]
            /\ UNCHANGED <<objs, store, backend, clock>>
            /\ DataFrame

-----------------------------------------------------------------------------
(* Runs of the mutations of a GraphQLBackend *)

\* the methods of GraphQLBackend an integrator's subclass may override
GraphQLMethods == {"save", "delete", "saveRequest", "deleteRequest"}

\* a method the integrator wrote settles as the integrator's code does
IntegratorOutcomes == {[kind |-> "resolved"], [kind |-> "rejected", error |-> "Error"]}

\* what backend.<method>(item) settles to on GraphQLBackend itself: save and
\* delete have an empty body, saveRequest and deleteRequest throw
GraphQLSettles(method) ==
    IF method \in {"save", "delete"} THEN [kind |-> "resolved"]
    ELSE [kind |-> "rejected", error |-> "Error"]

GraphQLInit ==
    /\ objs = <<>>
    /\ store = <<>>
    /\ backend \in [kind : {"graphql"}, overrides : SUBSET GraphQLMethods]
    /\ clock = 1
    /\ lastCall = [op |-> "none"]
    /\ lastOut = [kind |-> "none"]

\* backend.<method>(item): the integrator's method when there is one
GraphQLCall(method) ==
    \E ref \in DOMAIN objs, theirs \in IntegratorOutcomes :
        /\ lastCall' = [op |-> method, ref |-> ref, overridden |-> method \in backend.overrides]
        /\ lastOut' = IF method \in backend.overrides THEN theirs ELSE GraphQLSettles(method)
        /\ UNCHANGED <<objs, store, backend, clock>>
        /\ DataFrame

GraphQLSave == GraphQLCall("save")
GraphQLDelete == GraphQLCall("delete")
GraphQLSaveRequest == GraphQLCall("saveRequest")
GraphQLDeleteRequest == GraphQLCall("deleteRequest")

-----------------------------------------------------------------------------
(* Runs of the lookup registry: lookups are registered and the matcher is *)
(* run on one field condition                                             *)

\* the names a caller registers a lookup under, and the comparisons given
RegisteredNames == {"eq", "near", "toString"}
RegisteredImpls == {"ne", "lte", "never"}

\* the operators of the lookup objects: registered at load, registered by a
\* caller or not, never registered
LookupOperators == {"eq", "gte", "near", "like", "toString", "constructor"}
LookupOperands == {Num(1), Null}
LookupItems == {Obj([id |-> Str("u1"), age |-> Num(a)]) : a \in {1, 2}}
                   \cup {Obj([id |-> Str("u1")])}

\* the conditions on the age attribute: a bare value, or one operator
LookupConditions ==
    LookupOperands \cup {Obj([op \in {name} |-> x]) : name \in LookupOperators, x \in LookupOperands}

LookupInit ==
    /\ mItem = Undef /\ mFilter = Undef /\ mResult = "none" /\ mLegacy = "none"
    /\ lookups = LoadedLookups

\* registerLookup(name, impl)
RegisterLookup ==
    \E name \in RegisteredNames, impl \in RegisteredImpls :
        /\ lookups' = registerLookup(lookups, name, impl)
        /\ UNCHANGED matchVars
        /\ LookupFrame

\* filterLookup(item, {age: value}) with the registry as it stands
RunLookup ==
    \E item \in LookupItems, value \in LookupConditions :
        /\ mItem' = item
        /\ mFilter' = Obj([age |-> value])
        /\ mResult' = filterLookupOne(lookups, item, "age", value)
        /\ UNCHANGED <<mLegacy, lookups>>
        /\ LookupFrame

-----------------------------------------------------------------------------
(* MemoryBackend.execute: the relation tasks it starts and awaits *)

\* an attribute that holds a model instance holds a reference to it
Ref(i) == [t |-> "ref", ref |-> i]

\* what reading an attribute yields: the instance a reference leads to
Held(os, v) ==
    IF v.t = "ref" THEN os[v.ref]
    ELSE IF v.t = "array"
    THEN Arr([i \in DOMAIN v.a |-> IF v.a[i].t = "ref" THEN os[v.a[i].ref] ELSE v.a[i]])
    ELSE v

\* an instance, and the instances, as code that reads their attributes sees
\* them
Seen(os, e) == Obj([k \in DOMAIN e.o |-> Held(os, e.o[k])])
SeenHeap(os) == [i \in DOMAIN os |-> Seen(os, os[i])]

\* the results of backend.execute(options) on the backend of a model: the
\* stored instances themselves
FanRows(model, st, os, options) == MemoryExecute(st[model], SeenHeap(os), options)

\* the tasks pushed for one result and one field: one per query started
AsTasks(kind, r, f, calls) ==
    [i \in DOMAIN calls |-> [kind |-> kind, item |-> r, field |-> f, call |-> calls[i]]]

\* relatedPromises in the order pushed: for each result each select-related
\* field, then for each prefetch-related field each result; the query of a
\* task is started, with the attributes read, when the task is pushed
FanTasks(model, os, options, rows) ==
    Flatten([i \in DOMAIN rows |->
        Flatten([j \in DOMAIN selectNames(options) |->
            AsTasks("select", rows[i], selectNames(options)[j].s,
                    selectRelatedCalls(model, options, Seen(os, os[rows[i]]),
                                       selectNames(options)[j].s))])])
    \o
    Flatten([j \in DOMAIN prefetchNames(options) |->
        Flatten([i \in DOMAIN rows |->
            AsTasks("prefetch", rows[i], prefetchNames(options)[j],
                    prefetchRelatedCalls(model, options, Seen(os, os[rows[i]]),
                                         prefetchNames(options)[j]))])])

\* the then-callback of a task on the rows its query resolved to: a select
\* task assigns the first row when there is one, a prefetch task defines
\* the property as the rows
Attach(os, task, rows) ==
    IF task.kind = "select"
    THEN IF rows = <<>> THEN os
         ELSE [os EXCEPT ![task.item] = SetProp(@, task.field, Ref(rows[1]))]
    ELSE [os EXCEPT ![task.item] =
             SetProp(@, task.field, Arr([i \in DOMAIN rows |-> Ref(rows[i])]))]

\* a task settles: its query filters the related instances as they are then
Settle(st, os, task) ==
    Attach(os, task, FanRows(task.call.model, st, os, task.call.options))

\* the instances after the tasks have settled one after the other in the
\* order given
RECURSIVE SettleAll(_, _, _)
SettleAll(st, os, tasks) ==
    IF tasks = <<>> THEN os
    ELSE SettleAll(st, Settle(st, os, Head(tasks)), Tail(tasks))

-----------------------------------------------------------------------------
(* Runs of MemoryBackend.execute with related fields on stored users and *)
(* categories                                                            *)

MaxQueries == 2

\* the foreign key of an instance as saved: the bare key or an object with it
ForeignKeys(k) == {Str(k), Obj([id |-> Str(k)])}

FanGroup(i) == Obj([id |-> Str("g" \o ToString(i)), name |-> Str("Group" \o ToString(i))])
FanTag(i) == Obj([id |-> Str("t" \o ToString(i)), name |-> Str("Tag" \o ToString(i))])
FanUser(i, fk) ==
    Obj([id |-> Str("u" \o ToString(i)), name |-> Str("Ana"), group |-> fk,
         tags |-> Arr(<<Obj([id |-> Str("t1")]), Obj([id |-> Str("t2")])>>)])

\* two groups, two tags and a user of the first group with both tags
UserHeaps == {<<FanGroup(1), FanGroup(2), FanTag(1), FanTag(2), FanUser(1, fk)>> :
                 fk \in ForeignKeys("g1")}
UserStore(os) ==
    [User |-> SavedMap(os, <<5>>, "id"), Group |-> SavedMap(os, <<1, 2>>, "id"),
     Tag |-> SavedMap(os, <<3, 4>>, "id"), Category |-> <<>>]

\* a category owned by the category under it
CategoryHeaps ==
    UNION {{<<Obj([id |-> Str("c1"), name |-> Str("Root"), owner |-> own]),
              Obj([id |-> Str("c2"), name |-> Str("Leaf"), category |-> fk])>> :
               fk \in ForeignKeys("c1")} : own \in ForeignKeys("c2")}
CategoryStore(os) ==
    [User |-> <<>>, Group |-> <<>>, Tag |-> <<>>, Category |-> SavedMap(os, <<1, 2>>, "id")]

\* the querysets executed
FanSelectArgs == {<<Str("group")>>, <<Str("group"), Str("group")>>}
FanPrefetchArgs == {<<Str("tags")>>,
                    <<Obj([tags |-> Obj([filters |-> Obj([name |-> Str("Tag2")])])])>>}
FanQuerySets(model) ==
    IF model = "User"
    THEN {DefaultQS}
            \cup {QSelectRelated(DefaultQS, x) : x \in FanSelectArgs}
            \cup {QPrefetchRelated("User", DefaultQS, x) : x \in FanPrefetchArgs}
            \cup {QPrefetchRelated("User", QSelectRelated(DefaultQS, <<Str("group")>>), x) :
                     x \in FanPrefetchArgs}
    ELSE {DefaultQS, QSelectRelated(DefaultQS, <<Str("category")>>),
          QPrefetchRelated("Category", DefaultQS, <<Str("children")>>),
          QPrefetchRelated("Category", DefaultQS, <<Str("owned")>>),
          QPrefetchRelated("Category", QSelectRelated(DefaultQS, <<Str("category")>>),
                           <<Str("children")>>)}

FanInit ==
    /\ \/ \E os \in UserHeaps : objs = os /\ store = UserStore(os)
       \/ \E os \in CategoryHeaps : objs = os /\ store = CategoryStore(os)
    /\ backend = DefaultBackend
    /\ clock = 1
    /\ lastCall = [op |-> "none", n |-> 0]
    /\ lastOut = [kind |-> "none"]

\* the model whose instances are stored
FanModel == IF store["User"] # <<>> THEN "User" ELSE "Category"

\* execute() of a queryset up to the point where MemoryBackend.execute awaits
\* the tasks it pushed; without tasks it resolves
Started(model, q, options, rows, tasks) ==
    /\ lastCall' = [op |-> "execute", n |-> lastCall.n + 1, model |-> model, q |-> q,
                    rows |-> rows, tasks |-> tasks, before |-> objs]
    /\ lastOut' = IF tasks = <<>> THEN [kind |-> "rows", rows |-> rows]
                  ELSE [kind |-> "pending", left |-> DOMAIN tasks]
    /\ backendLog' = backendLog \o <<[model |-> model, options |-> options]>>
                        \o [i \in DOMAIN tasks |-> tasks[i].call]
    /\ UNCHANGED <<objs, store, backend, clock>>
    /\ QueryFrame

FanOptions(q) == ExecuteOptions(FanModel, q)
FanExecute ==
    \E q \in FanQuerySets(FanModel) :
        /\ lastOut.kind # "pending"
        /\ lastCall.n < MaxQueries
        /\ Started(FanModel, q, FanOptions(q), FanRows(FanModel, store, objs, FanOptions(q)),
                   FanTasks(FanModel, objs, FanOptions(q),
                            FanRows(FanModel, store, objs, FanOptions(q))))

\* one of the pending tasks settles; Promise.all resolves with the last
FanSettle ==
    \E i \in (IF lastOut.kind = "pending" THEN lastOut.left ELSE {}) :
        /\ objs' = Settle(store, objs, lastCall.tasks[i])
        /\ lastOut' = IF lastOut.left = {i} THEN [kind |-> "rows", rows |-> lastCall.rows]
                      ELSE [kind |-> "pending", left |-> lastOut.left \ {i}]
        /\ UNCHANGED <<store, backend, clock, lastCall>>
        /\ DataFrame

-----------------------------------------------------------------------------
(* BaseModel.getSchema and the validators fullClean runs, on nested models *)

\* nested model classes, in the order their fields are declared
SchemaModels == {"Tree", "Branch", "Leaf"}
ModelOrder == <<"Tree", "Branch", "Leaf">>

\* the frames a call stack holds before a further call throws RangeError
MaxStack == 5

\* a set of models: for each model the models its nested fields refer to
NestedGraphs == [SchemaModels -> SUBSET SchemaModels]

\* Object.entries of the fields of a model that are nested fields, as the
\* models they refer to
NestedTargets(graph, model) ==
    LET refers(m) == m \in graph[model]
    IN  SelectSeq(ModelOrder, refers)

\* the frame of a call that walks the nested fields of a model
Frame(graph, model) == [model |-> model, rest |-> NestedTargets(graph, model)]

NoSchemaRun ==
    [graph |-> [m \in SchemaModels |-> {}], op |-> "none", phase |-> "idle", root |-> "",
     stack |-> <<>>, cache |-> {}, visits |-> [m \in SchemaModels |-> 0],
     out |-> [kind |-> "none"]]
SchemaIdle == schemaRun = NoSchemaRun

SchemaInit == \E graph \in NestedGraphs : schemaRun = [NoSchemaRun EXCEPT !.graph = graph]

\* getSchema() of a model class with a new cache: the name is not cached,
\* so the empty schema is cached and the fields are walked
EnterSchema(run, op, root) ==
    [run EXCEPT !.op = op, !.phase = "schema", !.root = root,
                !.stack = <<Frame(run.graph, root)>>, !.cache = {root},
                !.visits = [m \in SchemaModels |-> IF m = root THEN 1 ELSE 0],
                !.out = [kind |-> "none"]]

\* the stack with the first nested field of the top frame taken off it
Advanced(stack) ==
    [stack EXCEPT ![Len(stack)].rest = Tail(@)]

\* one step of getSchema(cache): the walk of a model is over and its schema
\* is returned, or the next nested field calls getSchema(cache) of its
\* model, which returns the cached schema or caches an empty one and walks
getSchemaStep(run) ==
    LET top == run.stack[Len(run.stack)]
        target == Head(top.rest)
        popped == SubSeq(run.stack, 1, Len(run.stack) - 1)
    IN  IF top.rest = <<>>
        THEN IF popped # <<>> THEN [run EXCEPT !.stack = popped]
             ELSE IF run.op = "getSchema"
             THEN [run EXCEPT !.stack = <<>>, !.phase = "done", !.out = [kind |-> "returned"]]
             ELSE [run EXCEPT !.stack = <<Frame(run.graph, run.root)>>, !.phase = "validate"]
        ELSE IF target \in run.cache
        THEN [run EXCEPT !.stack = Advanced(run.stack)]
        ELSE [run EXCEPT !.stack = Append(Advanced(run.stack), Frame(run.graph, target)),
                         !.cache = @ \cup {target},
                         !.visits[target] = @ + 1]

\* one step of the validators fullClean calls: the entries of a schema are
\* done, or the validator of the next nested field is called with
\* value?.[key] and goes through the entries of the nested schema; a call
\* on a full stack throws RangeError, which fullClean rethrows as a
\* ValidationError
validatorStep(run) ==
    LET top == run.stack[Len(run.stack)]
        popped == SubSeq(run.stack, 1, Len(run.stack) - 1)
    IN  IF top.rest = <<>>
        THEN IF popped # <<>> THEN [run EXCEPT !.stack = popped]
             ELSE [run EXCEPT !.stack = <<>>, !.phase = "done", !.out = [kind |-> "resolved"]]
        ELSE IF Len(run.stack) = MaxStack
        THEN [run EXCEPT !.stack = <<>>, !.phase = "done",
                         !.out = [kind |-> "rejected", error |-> "ValidationError",
                                  cause |-> "RangeError"]]
        ELSE [run EXCEPT !.stack = Append(Advanced(run.stack),
                                          Frame(run.graph, Head(top.rest)))]

-----------------------------------------------------------------------------
(* Runs of getSchema and fullClean on sets of nested models *)

\* Model.getSchema() is called
CallGetSchema ==
    \E root \in SchemaModels :
        /\ schemaRun.phase \in {"idle", "done"}
        /\ schemaRun' = EnterSchema(schemaRun, "getSchema", root)
        /\ SchemaFrame

\* fullClean() is called on an instance: it calls cls.getSchema()
CallFullClean ==
    \E root \in SchemaModels :
        /\ schemaRun.phase \in {"idle", "done"}
        /\ schemaRun' = EnterSchema(schemaRun, "fullClean", root)
        /\ SchemaFrame

\* the running getSchema goes on
SchemaStep ==
    /\ schemaRun.phase = "schema"
    /\ schemaRun' = getSchemaStep(schemaRun)
    /\ SchemaFrame

\* the validators fullClean called go on
ValidatorStep ==
    /\ schemaRun.phase = "validate"
    /\ schemaRun' = validatorStep(schemaRun)
    /\ SchemaFrame

-----------------------------------------------------------------------------
(* Runs of MemoryBackend.save and MemoryBackend.delete made at once on one *)
(* InMemoryStorage: a save is suspended at its await of storage.load()     *)

MaxFlights == 3
FlightKeys == <<"u1", "u2", "u3">>

\* the instances of the run, each with its own key
FlightUser(i) == New("User", Obj([id |-> Str(FlightKeys[i]), name |-> Str("Ana")]), 1)

\* the keys of the Map
MapKeySet(map) == {map[i].key : i \in DOMAIN map}

FlightInit ==
    /\ objs = [i \in 1..Len(FlightKeys) |-> FlightUser(i)]
    /\ \E n \in 0..1 : store = [i \in 1..n |-> [key |-> getPk(objs[i]), ref |-> i]]
    /\ backend = [kind |-> "storage", options |-> DefaultBackend.options]
    /\ clock = 1
    /\ lastCall = [op |-> "none"]
    /\ lastOut = [kind |-> "none"]
    /\ flights = <<>>

\* the calls that wait at an await
Suspended == {i \in DOMAIN flights : flights[i].at = "loaded"}

\* the calls now suspended have another call running beside them
Beside == [i \in DOMAIN flights |-> IF i \in Suspended THEN [flights[i] EXCEPT !.beside = TRUE]
                                    ELSE flights[i]]

\* backend.save(instance) up to its first await: storage.load() has
\* copied the Map
SaveBegin ==
    \E ref \in DOMAIN objs :
        /\ Len(flights) < MaxFlights
        /\ flights' = Append(Beside, [op |-> "save", ref |-> ref, pk |-> getPk(objs[ref]),
                                      at |-> "loaded", map |-> store,
                                      beside |-> Suspended # {}])
        /\ UNCHANGED dataVars
        /\ FlightFrame

\* backend.save(instance) from its first await on: the key is read, the
\* instance is set in the Map that was loaded and storage.save(map)
\* installs that Map
SaveResume ==
    \E i \in Suspended, gen \in GenKeys :
        LET r == MemorySave(flights[i].map, objs, flights[i].ref, backend.options, gen)
        IN  /\ store' = r.store
            /\ objs' = r.objs
            /\ flights' = [flights EXCEPT ![i].at = r.out.kind]
            /\ UNCHANGED <<backend, clock, lastCall, lastOut>>
            /\ FlightFrame

\* backend.delete(instance): storage.delete(pk) removes the key from the
\* Map the storage holds
DeleteCall ==
    \E ref \in DOMAIN objs :
        /\ Len(flights) < MaxFlights
        /\ store' = MemoryDelete(backend.kind, store, objs[ref])
        /\ flights' = Append(Beside, [op |-> "delete", ref |-> ref, pk |-> getPk(objs[ref]),
                                      at |-> "resolved", map |-> store,
                                      beside |-> Suspended # {}])
        /\ UNCHANGED <<objs, backend, clock, lastCall, lastOut>>
        /\ FlightFrame

-----------------------------------------------------------------------------
(* DexieBackend.execute, beside MemoryBackend.execute on the same data *)

\* table.toCollection(): the objects of the table in the order of their keys
KeyRank(k) == CHOOSE i \in 1..MaxRows : Str(UserId(i)) = k
TableInsert(sorted, entry) ==
    LET later == {i \in DOMAIN sorted : KeyRank(sorted[i].key) > KeyRank(entry.key)}
        at == IF later = {} THEN Len(sorted) + 1
              ELSE CHOOSE i \in later : \A j \in later : i <= j
    IN  SubSeq(sorted, 1, at - 1) \o <<entry>> \o SubSeq(sorted, at, Len(sorted))
RECURSIVE toCollection(_)
toCollection(st) ==
    IF st = <<>> THEN <<>>
    ELSE TableInsert(toCollection(SubSeq(st, 1, Len(st) - 1)), st[Len(st)])

\* DexieBackend.execute(options): filter, offset, limit, toArray, sort; the
\* rows are the objects of the table
DexieExecute(st, os, options) ==
    LET filters == IF options.filters = Undef THEN EmptyObj ELSE options.filters
        test(r) == filterLookup(os[r], filters)
        ordering == IF options.ordering.t = "array" THEN options.ordering.a ELSE <<>>
        offset == Prop(options.pagination, "offset")
        lim == Prop(options.pagination, "limit")
        skipped(results) ==
            IF Truthy(offset) THEN Slice(results, offset.n, Len(results)) ELSE results
        page(results) == IF Truthy(lim) THEN Slice(results, 0, lim.n) ELSE results
        sorted(results) ==
            IF Len(ordering) > 0 THEN SortRefs(results, ordering, os) ELSE results
    IN  sorted(page(skipped(SelectSeq(StoredRefs(toCollection(st)), test))))

\* the entities a backend resolves to: MemoryBackend gives the stored
\* instances, DexieBackend gives modelClass.new(data) of each object
Entities(kind, os, rows, now) ==
    [i \in DOMAIN rows |-> IF kind = "dexie" THEN New("User", os[rows[i]], now)
                           ELSE os[rows[i]]]

DexieBackends == {[kind |-> "dexie", options |-> Obj([tableName |-> Str("users")])],
                  DefaultBackend}

\* the same users saved, in the order of their keys, on either backend
DexieInit ==
    /\ \E rows \in SmallDatasets : objs = rows /\ store = StoreOf(rows)
    /\ backend \in DexieBackends
    /\ clock = 1
    /\ lastCall = [op |-> "none"]
    /\ lastOut = [kind |-> "none"]

\* what backend.execute(options) of a queryset leaves in the state
Executed(q, options, rows) ==
    /\ lastCall.op = "none"
    /\ lastCall' = [op |-> "execute", q |-> q, options |-> options]
    /\ lastOut' = [kind |-> "rows", rows |-> Entities(backend.kind, objs, rows, clock)]
    /\ backendLog' = backendLog \o <<[model |-> "User", options |-> options]>>
    /\ UNCHANGED <<objs, store, backend, clock>>
    /\ QueryFrame

\* execute() of a queryset of a model on a DexieBackend
RunDexie ==
    \E q \in ExecQuerySets :
        /\ backend.kind = "dexie"
        /\ Executed(q, ExecuteOptions("User", q),
                    DexieExecute(store, objs, ExecuteOptions("User", q)))

\* execute() of a queryset of a model on a MemoryBackend
RunMemory ==
    \E q \in ExecQuerySets :
        /\ backend.kind = "storage"
        /\ Executed(q, ExecuteOptions("User", q),
                    MemoryExecute(store, objs, ExecuteOptions("User", q)))

-----------------------------------------------------------------------------
(* Specifications *)

vars ==
    <<matchVars, normVars, qsVars, dataVars, lifeVars, regVars, logVars, lookupVars, schemaVars,
      flightVars>>

\* chain calls and execute() on QuerySet objects
Init == QsInit /\ MatchIdle /\ NormIdle /\ DataIdle /\ LifeIdle /\ RegIdle /\ backendLog = <<>> /\ flights = <<>> /\ SchemaIdle
Next == QsNext
Spec == Init /\ [][Next]_vars

\* runs of the filter matcher on bounded entities and filter trees
InitMatch == MatchInit /\ NormIdle /\ QsIdle /\ DataIdle /\ LifeIdle /\ RegIdle /\ backendLog = <<>> /\ flights = <<>> /\ SchemaIdle
NextMatch == RunMatch \/ RunMatchLegacy
SpecMatch == InitMatch /\ [][NextMatch]_vars

\* runs of normalizeFilter, applied once and then to its own result
InitNorm == NormInit /\ MatchIdle /\ QsIdle /\ DataIdle /\ LifeIdle /\ RegIdle /\ backendLog = <<>> /\ flights = <<>> /\ SchemaIdle
NextNorm == NormalizeOnce \/ NormalizeTwice
SpecNorm == InitNorm /\ [][NextNorm]_vars

\* execute(), first() and get() on bounded stored data
InitExec == ExecInit /\ MatchIdle /\ NormIdle /\ QsIdle /\ LifeIdle /\ RegIdle /\ backendLog = <<>> /\ flights = <<>> /\ SchemaIdle
NextExec == RunExecute \/ RunFirst \/ RunGet
SpecExec == InitExec /\ [][NextExec]_vars

\* instances created and saved through MemoryBackend.save
InitStore == StoreInit /\ MatchIdle /\ NormIdle /\ QsIdle /\ LifeIdle /\ RegIdle /\ backendLog = <<>> /\ flights = <<>> /\ SchemaIdle
NextStore == NewInstance \/ BackendSave \/ LegacySave
SpecStore == InitStore /\ [][NextStore]_vars

\* the save and delete lifecycle of model instances on the memory backend
InitLife == LifeInit /\ MatchIdle /\ NormIdle /\ QsIdle /\ RegIdle /\ backendLog = <<>> /\ flights = <<>> /\ SchemaIdle
NextLife ==
    \/ Tick \/ LifeNew \/ SetAttr
    \/ CallSave \/ EmitPre \/ HandlerSettles \/ BackendWrite
    \/ CallDelete \/ BackendRemove \/ EmitPost \/ Resolve
SpecLife == InitLife /\ [][NextLife]_vars


\* instances created, saved and deleted through the memory backends
InitDelete == DeleteInit /\ MatchIdle /\ NormIdle /\ QsIdle /\ LifeIdle /\ RegIdle /\ backendLog = <<>> /\ flights = <<>> /\ SchemaIdle
NextDelete == NewInstance \/ BackendSave \/ LegacySave \/ LocalSave \/ BackendDelete
SpecDelete == InitDelete /\ [][NextDelete]_vars


\* models registered in two registries, validated, and their accessors called
InitReg == RegInit /\ MatchIdle /\ NormIdle /\ QsIdle /\ DataIdle /\ LifeIdle /\ backendLog = <<>> /\ flights = <<>> /\ SchemaIdle
NextReg == Register \/ Validate \/ CallAccessor
SpecReg == InitReg /\ [][NextReg]_vars


\* getRelated on a member, against stored groups and badges
InitRel == RelInit /\ MatchIdle /\ NormIdle /\ QsIdle /\ LifeIdle /\ RegIdle /\ backendLog = <<>> /\ flights = <<>> /\ SchemaIdle
NextRel == RunGetRelated
SpecRel == InitRel /\ [][NextRel]_vars

\* chained calls on a queryset of users and the terminal methods
InitLazy == LazyInit /\ MatchIdle /\ NormIdle /\ QsIdle /\ LifeIdle /\ RegIdle /\ backendLog = <<>> /\ flights = <<>> /\ SchemaIdle
NextLazy ==
    \/ LazyGetRelatedMany \/ LazyFilter \/ LazyExclude \/ LazyOrderBy \/ LazyLimit
    \/ LazyPaginate \/ LazyOnly \/ LazySelectRelated \/ LazyPrefetchRelated \/ LazyValuesList
    \/ LazyExecute \/ LazyAll \/ LazyFirst \/ LazyCount \/ LazyGet
SpecLazy == InitLazy /\ [][NextLazy]_vars

\* normalize and the field conversions, as time passes
InitFields == FieldsInit /\ MatchIdle /\ NormIdle /\ QsIdle /\ LifeIdle /\ RegIdle /\ backendLog = <<>> /\ flights = <<>> /\ SchemaIdle
NextFields == EventNew \/ NormalizeAgain \/ RoundTrip \/ Tick
SpecFields == InitFields /\ [][NextFields]_vars


\* instances are created and handed to the mutations of a GraphQLBackend
InitGraphQL == GraphQLInit /\ MatchIdle /\ NormIdle /\ QsIdle /\ LifeIdle /\ RegIdle /\ backendLog = <<>> /\ flights = <<>> /\ SchemaIdle
NextGraphQL ==
    NewInstance \/ GraphQLSave \/ GraphQLDelete \/ GraphQLSaveRequest \/ GraphQLDeleteRequest
SpecGraphQL == InitGraphQL /\ [][NextGraphQL]_vars


\* lookups are registered and the matcher is run, in any order
InitLookup == LookupInit /\ NormIdle /\ QsIdle /\ DataIdle /\ LifeIdle /\ RegIdle /\ backendLog = <<>> /\ flights = <<>> /\ SchemaIdle
NextLookup == RegisterLookup \/ RunLookup
SpecLookup == InitLookup /\ [][NextLookup]_vars


\* stored users or categories are queried with related fields, the tasks of
\* a query settling in any order
InitFan == FanInit /\ MatchIdle /\ NormIdle /\ QsIdle /\ LifeIdle /\ RegIdle /\ backendLog = <<>> /\ flights = <<>> /\ SchemaIdle
NextFan == FanExecute \/ FanSettle
SpecFan == InitFan /\ [][NextFan]_vars


\* getSchema and fullClean are called on the models of a set of nested models
InitSchema ==
    SchemaInit /\ MatchIdle /\ NormIdle /\ QsIdle /\ DataIdle /\ LifeIdle /\ RegIdle /\ backendLog = <<>> /\ flights = <<>>
NextSchema == CallGetSchema \/ CallFullClean \/ SchemaStep \/ ValidatorStep
SpecSchema == InitSchema /\ [][NextSchema]_vars

\* saves and deletes of instances with different keys, made at once
InitFlight ==
    /\ FlightInit /\ MatchIdle /\ NormIdle /\ QsIdle /\ LifeIdle /\ RegIdle
    /\ backendLog = <<>> /\ SchemaIdle
NextFlight == SaveBegin \/ SaveResume \/ DeleteCall
SpecFlight == InitFlight /\ [][NextFlight]_vars

\* execute() of the same querysets on a DexieBackend and on a MemoryBackend
InitDexie == DexieInit /\ MatchIdle /\ NormIdle /\ QsIdle /\ LifeIdle /\ RegIdle /\ backendLog = <<>> /\ flights = <<>> /\ SchemaIdle
NextDexie == RunDexie \/ RunMemory
SpecDexie == InitDexie /\ [][NextDexie]_vars

-----------------------------------------------------------------------------
(* C2: fixed-priority rule of the matcher *)

\* the rule as stated: AND if present, otherwise OR, otherwise NOT
RECURSIVE PriorityMatch(_, _)
PriorityMatch(e, f) ==
    LET fieldResult == \A k \in (DOMAIN f.o) \ LogicalKeys : FieldCondition(e, k, f.o[k])
    IN  CASE "AND" \in DOMAIN f.o -> fieldResult /\ PriorityMatch(e, f.o["AND"])
          [] "AND" \notin DOMAIN f.o /\ "OR" \in DOMAIN f.o ->
                fieldResult \/ PriorityMatch(e, f.o["OR"])
          [] {"AND", "OR"} \cap DOMAIN f.o = {} /\ "NOT" \in DOMAIN f.o ->
                fieldResult /\ ~PriorityMatch(e, f.o["NOT"])
          [] OTHER -> fieldResult

\* the node with every logical key but its highest-priority one removed
HighestOnly(f) ==
    LET top == CASE "AND" \in DOMAIN f.o -> {"AND"}
                 [] "AND" \notin DOMAIN f.o /\ "OR" \in DOMAIN f.o -> {"OR"}
                 [] OTHER -> {"NOT"}
        keep == ((DOMAIN f.o) \ LogicalKeys) \cup (top \cap DOMAIN f.o)
    IN  Obj([k \in keep |-> f.o[k]])

\* C2: whenever a matcher has run, its result is the one the fixed-priority
\* rule gives (AND, else OR, else NOT, else fieldResult), and it is the
\* result for the node with its lower-priority logical keys removed.
C2_FixedPriority ==
    /\ mResult # "none" =>
        /\ (mResult = "true") <=> PriorityMatch(mItem, mFilter)
        /\ (mResult = "true") <=> filterLookup(mItem, HighestOnly(mFilter))
    /\ mLegacy # "none" =>
        /\ (mLegacy = "true") <=> PriorityMatch(mItem, mFilter)
        /\ (mLegacy = "true") <=> match(mItem, HighestOnly(mFilter))

\* a node with AND and OR on which honouring both keys would give another result
C2_Witness ==
    /\ mResult # "none"
    /\ mLegacy # "none"
    /\ {"AND", "OR"} \subseteq DOMAIN mFilter.o
    /\ (mResult = "true") # filterLookupBoth(mItem, mFilter)

-----------------------------------------------------------------------------
(* C6: normalizeFilter is idempotent *)

\* C6: normalizing the result of normalizeFilter again gives the same value.
C6_Idempotent == nTwice # <<>> => nTwice[1] = nOnce[1]

\* a tree with a nested literal was normalized twice, and normalizing changed it
C6_Witness ==
    /\ nTwice # <<>>
    /\ nInput.t = "object"
    /\ nOnce[1] # nInput
    /\ \E k \in LogicalKeys \cap DOMAIN nInput.o :
          nInput.o[k].t = "object" /\ \E j \in DOMAIN nInput.o[k].o : nInput.o[k].o[j].t = "array"

-----------------------------------------------------------------------------
(* C1: cloning invariant *)

\* the containers an object refers to
RefsOf(o) == {o.refs[f] : f \in ContainerFields} \ {0}

\* no array or map of the state is held by two QuerySet objects, or by two
\* fields of one
NoSharedContainer ==
    /\ \A i, j \in DOMAIN qsObjs : i # j => RefsOf(qsObjs[i]) \cap RefsOf(qsObjs[j]) = {}
    /\ \A i \in DOMAIN qsObjs : \A f, g \in ContainerFields :
          f # g /\ qsObjs[i].refs[f] # 0 => qsObjs[i].refs[f] # qsObjs[i].refs[g]

\* a step leaves the state of every existing QuerySet object as it was, and
\* a chain call returns an object other than its receiver
ChainLeavesReceiver ==
    /\ \A i \in DOMAIN qsObjs :
          /\ i \in DOMAIN qsObjs'
          /\ View(heap', qsObjs'[i]) = View(heap, qsObjs[i])
    /\ qsCall'.ret # qsCall'.src \/ qsCall'.ret = 0

-----------------------------------------------------------------------------
(* C7: the backend receives lookup objects for every field key *)

\* every field key of the tree, under any nesting of AND/OR/NOT, maps to an object
RECURSIVE LookupShaped(_)
LookupShaped(f) ==
    f.t = "object" =>
        \A k \in DOMAIN f.o :
            IF k \in LogicalKeys THEN LookupShaped(f.o[k]) ELSE f.o[k].t = "object"

-----------------------------------------------------------------------------
(* Expected results of a query, stated on the stored data *)

\* the store positions of the instances a queryset's filters select
Matching(filters) ==
    LET nf == normalizeFilter(filters)
    IN  {i \in DOMAIN store : ~Truthy(nf) \/ filterLookup(objs[store[i].ref], nf)}

\* instance a sorts strictly in front of b by one ordering key
KeyBefore(key, a, b) ==
    LET x == Prop(a, key.o["field"].s)
        y == Prop(b, key.o["field"].s)
    IN  IF key.o["direction"] = Str("DESC") THEN JsLess(y, x) ELSE JsLess(x, y)

KeyTie(key, a, b) == ~KeyBefore(key, a, b) /\ ~KeyBefore(key, b, a)

\* position i comes in front of position j: the first key that tells them
\* apart decides, and the stored order decides when no key does
Before(ordering, i, j) ==
    LET a == objs[store[i].ref]
        b == objs[store[j].ref]
    IN  \/ \E k \in DOMAIN ordering :
              /\ \A m \in 1..(k - 1) : KeyTie(ordering[m], a, b)
              /\ KeyBefore(ordering[k], a, b)
        \/ /\ \A m \in DOMAIN ordering : KeyTie(ordering[m], a, b)
           /\ i < j

\* the 1-based place of position i in the fully sorted list of the positions M
Rank(ordering, M, i) == 1 + Cardinality({j \in M : Before(ordering, j, i)})

PosOf(ref) == CHOOSE i \in DOMAIN store : store[i].ref = ref
IsStored(ref) == \E i \in DOMAIN store : store[i].ref = ref

OrderingOf(q) == IF q["ordering"].t = "array" THEN q["ordering"].a ELSE <<>>
OffsetOf(q) == IF Prop(q["pagination"], "offset") = Undef THEN 0
               ELSE Prop(q["pagination"], "offset").n
HasLimit(q) == Prop(q["pagination"], "limit") # Undef
LimitOf(q) == Prop(q["pagination"], "limit").n

\* rows is the slice [off, off + cnt) of the sorted list of the positions M
IsSortedSlice(rows, ordering, M, off, cnt) ==
    /\ Len(rows) = cnt
    /\ \A p \in 1..cnt :
          /\ IsStored(rows[p])
          /\ PosOf(rows[p]) \in M
          /\ Rank(ordering, M, PosOf(rows[p])) = off + p

Min(a, b) == IF a < b THEN a ELSE b
Max(a, b) == IF a > b THEN a ELSE b

-----------------------------------------------------------------------------
(* C5: MemoryBackend.execute filters, sorts stably by the ordering keys,    *)
(* then skips offset rows and keeps limit rows: what execute() resolves to  *)
(* is the slice [offset, offset+limit) of the fully sorted list of the      *)
(* matching entities; orderBy("-age").limit(3) over the ages 21..30         *)
(* resolves to the ages 30, 29, 28.                                         *)

ScenarioQuery == QLimit(QOrderBy(DefaultQS, <<Str("-age")>>), 3)
IsScenarioData == {objs[store[i].ref].o["age"].n : i \in DOMAIN store} = 21..30

C5_SortedSlice ==
    lastCall.op = "execute" =>
        LET q == lastCall.q
            M == Matching(q["filters"])
            left == Max(0, Cardinality(M) - OffsetOf(q))
            cnt == IF HasLimit(q) THEN Min(LimitOf(q), left) ELSE left
        IN  /\ lastOut.kind = "rows"
            /\ IsSortedSlice(lastOut.rows, OrderingOf(q), M, OffsetOf(q), cnt)
            /\ (IsScenarioData /\ q = ScenarioQuery) =>
                  [p \in DOMAIN lastOut.rows |-> objs[lastOut.rows[p]].o["age"].n]
                      = <<30, 29, 28>>

\* a page cut out of the middle of rows that tie on the first key and are
\* told apart by the second, and the scenario query on the scenario data
C5_Witness ==
    /\ lastCall.op = "execute"
    /\ Len(OrderingOf(lastCall.q)) = 2
    /\ OffsetOf(lastCall.q) = 1
    /\ HasLimit(lastCall.q)
    /\ Len(lastOut.rows) = 1
    /\ Cardinality(Matching(lastCall.q["filters"])) = 3
    /\ \E i, j \in Matching(lastCall.q["filters"]) :
          /\ i < j
          /\ KeyTie(OrderingOf(lastCall.q)[1], objs[store[i].ref], objs[store[j].ref])
          /\ Before(OrderingOf(lastCall.q), j, i)
          /\ lastOut.rows[1] = store[i].ref

C5_ScenarioWitness ==
    /\ lastCall.op = "execute"
    /\ IsScenarioData
    /\ lastCall.q = ScenarioQuery
    /\ objs[store[1].ref].o["age"].n = 25
    /\ Len(lastOut.rows) = 3

-----------------------------------------------------------------------------
(* C4: first() resolves and never rejects: to undefined when the query it   *)
(* executes (the receiver limited to one row) has no row, and otherwise to  *)
(* the first row of that query, the matching entity next after the offset   *)
(* in the sorted order.                                                     *)

C4_FirstOrUndefined ==
    lastCall.op = "first" =>
        LET q == lastCall.q
            M == Matching(q["filters"])
        IN  /\ lastOut.kind # "rejected"
            /\ Cardinality(M) <= OffsetOf(q) => lastOut = [kind |-> "undefined"]
            /\ Cardinality(M) > OffsetOf(q) =>
                  /\ lastOut.kind = "entity"
                  /\ IsSortedSlice(<<lastOut.ref>>, OrderingOf(q), M, OffsetOf(q), 1)

\* first() found nothing although entities are stored
C4_Witness ==
    /\ lastCall.op = "first"
    /\ store # <<>>
    /\ Matching(lastCall.q["filters"]) = {}
    /\ lastOut = [kind |-> "undefined"]

-----------------------------------------------------------------------------
(* C3: get(expr) resolves to the entity when exactly one stored entity      *)
(* matches the queryset's filters merged with expr, rejects with            *)
(* DoesNotExist when none matches and with MultipleObjectsReturned when two *)
(* or more match.                                                           *)

GetMatching == Matching(Spread(lastCall.q["filters"], lastCall.expr))

GetOutcomeAsStated ==
    LET M == GetMatching
    IN  /\ Cardinality(M) = 1 =>
              /\ lastOut.kind = "entity"
              /\ PosOf(lastOut.ref) \in M
        /\ Cardinality(M) = 0 =>
              lastOut = [kind |-> "rejected", error |-> "DoesNotExist"]
        /\ Cardinality(M) >= 2 =>
              lastOut = [kind |-> "rejected", error |-> "MultipleObjectsReturned"]

C3_GetOutcomes == lastCall.op = "get" => GetOutcomeAsStated

\* the same for receivers that carry no offset
C3_GetWithoutOffset ==
    (lastCall.op = "get" /\ OffsetOf(lastCall.q) = 0) => GetOutcomeAsStated

\* get() resolved to an entity although several entities match
C3_SilentFirstOfSeveral ==
    /\ lastCall.op = "get"
    /\ Cardinality(GetMatching) >= 2
    /\ lastOut.kind = "entity"

-----------------------------------------------------------------------------
(* C10: MemoryBackend.save is an upsert by primary key.  After save(e) of  *)
(* an entity with primary key k the store maps k to e and every other      *)
(* entry is as before; without a primary key and with auto-generation a    *)
(* generated key is assigned to e's primary-key field and used; without a  *)
(* primary key and without auto-generation save rejects with a missing     *)
(* primary key error and the store is as before.                           *)

\* the entries of a Map other than the one under key k, in order
Others(map, k) ==
    LET keep(entry) == entry.key # k
    IN  SelectSeq(map, keep)

\* the Map holds exactly one entry under k, and it refers to ref
MapsTo(map, k, ref) ==
    /\ \E i \in DOMAIN map : map[i] = [key |-> k, ref |-> ref]
    /\ Cardinality({i \in DOMAIN map : map[i].key = k}) = 1

HasPk(pk) == pk.t = "string" /\ pk.s # ""
AutoGenerates == Prop(backend.options, "autoGeneratePk") = Bool(TRUE)
MissingPkErrors == {"Missing primary key",
                    "Instance must have a primary key to be saved in memory backend."}

C10_SaveUpserts ==
    lastCall.op = "save" =>
        LET e == lastCall.ref
            now == getPk(objs[e])
        IN  /\ HasPk(lastCall.pk) =>
                  /\ lastOut = [kind |-> "resolved"]
                  /\ now = lastCall.pk
                  /\ MapsTo(store, lastCall.pk, e)
                  /\ Others(store, lastCall.pk) = Others(lastCall.before, lastCall.pk)
            /\ (~HasPk(lastCall.pk) /\ AutoGenerates) =>
                  /\ lastOut = [kind |-> "resolved"]
                  /\ now.t = "string" /\ now.s \in GenKeys
                  /\ MapsTo(store, now, e)
                  /\ Others(store, now) = Others(lastCall.before, now)
            /\ (~HasPk(lastCall.pk) /\ ~AutoGenerates) =>
                  /\ lastOut.kind = "rejected"
                  /\ lastOut.error \in MissingPkErrors
                  /\ store = lastCall.before
                  /\ now = lastCall.pk

\* a save replaced the entity stored under its key and kept another entry
C10_Witness ==
    /\ lastCall.op = "save"
    /\ HasPk(lastCall.pk)
    /\ \E i \in DOMAIN lastCall.before :
          /\ lastCall.before[i].key = lastCall.pk
          /\ lastCall.before[i].ref # lastCall.ref
    /\ Others(store, lastCall.pk) # <<>>
    /\ MapsTo(store, lastCall.pk, lastCall.ref)

\* a save without a key generated one
C10_GeneratedWitness ==
    /\ lastCall.op = "save"
    /\ ~HasPk(lastCall.pk)
    /\ lastOut = [kind |-> "resolved"]
    /\ store # <<>> /\ lastCall.before # <<>>

\* a save without a key was rejected while entities are stored
C10_RejectedWitness ==
    /\ lastCall.op = "save"
    /\ lastOut.kind = "rejected"
    /\ store # <<>>

-----------------------------------------------------------------------------
(* C8: lifecycle ordering.  In every run of Model.save() the pre_save      *)
(* signal is emitted and all its handlers have completed before the        *)
(* backend is called, and post_save is emitted only after the backend      *)
(* write succeeded; the same for Model.delete() with pre_delete, the       *)
(* backend removal and post_delete.  When the backend call fails no post   *)
(* signal is emitted and the operation rejects with the backend's error.   *)

At(ev) == {i \in DOMAIN log : log[i] = ev}
BackendDone == "backend." \o OpKind
BackendFailed == "backend." \o OpKind \o ":failed"

C8_LifecycleOrder ==
    lastCall.op \in {"Model.save", "Model.delete"} =>
        /\ \A i \in At(BackendDone) \cup At(BackendFailed) :
              /\ \E j \in At(PreSignal(OpKind)) :
                    /\ j < i
                    /\ Cardinality({m \in (j + 1)..(i - 1) : log[m] = "handler:ok"})
                           = handlers.pre
              /\ \A m \in 1..(i - 1) : log[m] # "handler:failed"
        /\ \A i \in At(PostSignal(OpKind)) : \E j \in At(BackendDone) : j < i
        /\ At(BackendFailed) # {} =>
              /\ At(PostSignal(OpKind)) = {}
              /\ pc = "done"
              /\ lastOut = [kind |-> "rejected", error |-> "Missing primary key"]
        /\ \A ev \in {PreSignal(OpKind), BackendDone, BackendFailed, PostSignal(OpKind)} :
              Cardinality(At(ev)) <= 1
        /\ lastOut.kind = "resolved" =>
              \E i \in At(PreSignal(OpKind)), j \in At(BackendDone),
                 k \in At(PostSignal(OpKind)) : i < j /\ j < k

\* a save ran to its end with two pre_save handlers and a post_save handler
C8_Witness ==
    /\ lastCall.op = "Model.save"
    /\ handlers.pre = 2 /\ handlers.post > 0
    /\ lastOut.kind = "resolved"
    /\ Len(log) > 5

\* a delete ran to its end and removed the stored entity
C8_DeleteWitness ==
    /\ lastCall.op = "Model.delete"
    /\ handlers.pre > 0
    /\ lastOut.kind = "resolved"
    /\ store = <<>>

\* the backend rejected the save after the pre_save handlers completed
C8_FailureWitness ==
    /\ lastCall.op = "Model.save"
    /\ handlers.pre > 0
    /\ At("backend.save:failed") # {}

-----------------------------------------------------------------------------
(* C9: validation failure aborts save.  When save(validate = true) is      *)
(* called and fullClean() rejects, save rejects with the validation error, *)
(* no pre_save or post_save signal is emitted, the backend's save is not   *)
(* called and the stored data is unchanged; with validate = false          *)
(* fullClean is not run.                                                   *)

\* the stored data: the keys and the attributes of the entity under each
StoredData(st, os) == [i \in DOMAIN st |-> [key |-> st[i].key, entity |-> os[st[i].ref]]]

\* the step is a call of save() in which fullClean rejected
ValidationFailed == CallSave /\ log' = <<"normalize", "fullClean:failed">>

NoSignalNoWrite ==
    /\ lastOut' = [kind |-> "rejected", error |-> "ValidationError"]
    /\ lastCall'.validate
    /\ store' = store

\* a call of save(false) runs no fullClean
SkipsFullClean ==
    (CallSave /\ ~lastCall'.validate) => log' = <<"normalize", "emit:pre_save">>

C9_AbortsUnchanged ==
    [][/\ ValidationFailed => (NoSignalNoWrite /\ StoredData(store', objs') = StoredData(store, objs))
       /\ SkipsFullClean]_vars

\* what holds of it: the rejection, no signal, no backend call, and the
\* same instances stored under the same keys
C9_AbortsWithoutWrite ==
    [][/\ ValidationFailed => NoSignalNoWrite
       /\ SkipsFullClean]_vars

\* a rejected save changed an attribute of the entity it is stored as
C9_StoredDataChanged ==
    /\ lastCall.op = "Model.save"
    /\ lastCall.validate
    /\ lastOut = [kind |-> "rejected", error |-> "ValidationError"]
    /\ \E i \in DOMAIN store :
          /\ store[i].ref = lastCall.ref
          /\ Prop(objs[store[i].ref], "joined") = DateAt(2)

-----------------------------------------------------------------------------
(* C11: MemoryBackend.delete(e) removes from the store exactly the entry   *)
(* whose key is e's primary key and leaves every other stored entity       *)
(* unchanged, on InMemoryStorage and on LocalStorageStorage; without a     *)
(* primary key, or with a key that is not stored, delete changes nothing   *)
(* and does not reject.                                                    *)

\* the entries of a store other than the one under key k, in order
WithoutKey(entries, k) ==
    LET keep(entry) == entry.key # k
    IN  SelectSeq(entries, keep)

DeleteAsStated ==
    lastCall.op = "delete" =>
        /\ lastOut = [kind |-> "resolved"]
        /\ store = WithoutKey(lastCall.before, lastCall.pk)

C11_DeleteRemovesOne == DeleteAsStated

\* what holds of it: the statement on InMemoryStorage and on the Map of
\* the earlier backend
C11_DeleteOnMap == backend.kind \in {"storage", "legacy"} => DeleteAsStated

\* a delete on LocalStorageStorage after which an entity stored under
\* another key is gone
C11_LocalDeleteLosesOthers ==
    /\ backend.kind = "local"
    /\ lastCall.op = "delete"
    /\ \E i \in DOMAIN lastCall.before :
          /\ lastCall.before[i].key # lastCall.pk
          /\ \A j \in DOMAIN store : store[j].key # lastCall.before[i].key

\* a delete on InMemoryStorage that removed one of two stored entities
C11_MapDeleteWitness ==
    /\ backend.kind = "storage"
    /\ lastCall.op = "delete"
    /\ Len(lastCall.before) = 2
    /\ Len(store) = 1

-----------------------------------------------------------------------------
(* C12: model names are unique within a registry.  register with a name    *)
(* already present throws ModelAlreadyRegistered and leaves the registry's *)
(* mapping and the class's registry reference unchanged; after any         *)
(* sequence of register calls each name maps to the class of its first     *)
(* successful registration.                                                *)

\* the name a register call registers under
RegisteredAs(call) == IF Truthy(call.name) THEN call.name ELSE Str(call.class)

UniqueNames(ms) ==
    \A r \in RegIds : \A i, j \in DOMAIN ms[r] : ms[r][i].name = ms[r][j].name => i = j

C12_UniqueNames ==
    [][Register =>
        /\ IF MapHas(models[regCall'.registry], RegisteredAs(regCall'))
           THEN /\ regOut' = [kind |-> "thrown", error |-> "ModelAlreadyRegistered"]
                /\ models' = models
                /\ stamped' = stamped
           ELSE /\ regOut' = [kind |-> "returned"]
                /\ MapGet(models'[regCall'.registry], RegisteredAs(regCall'))
                      = Class(regCall'.class)
                /\ stamped'[regCall'.class] = regCall'.registry
        /\ \A r \in RegIds : \A i \in DOMAIN models[r] :
              i \in DOMAIN models'[r] /\ models'[r][i] = models[r][i]
        /\ UniqueNames(models')]_vars

\* a duplicate registration of a class whose registry is another one
C12_Witness ==
    /\ regCall.op = "register"
    /\ regOut = [kind |-> "thrown", error |-> "ModelAlreadyRegistered"]
    /\ stamped[regCall.class] # regCall.registry
    /\ MapGet(models[regCall.registry], RegisteredAs(regCall)) # Class(regCall.class)

-----------------------------------------------------------------------------
(* C13: validate() raises RelatedModelNotFoundError exactly when some      *)
(* registered model has a relation-typed field whose target is not         *)
(* resolvable in that registry: it raises for a target name that is not    *)
(* registered and succeeds when every relation target is a registered      *)
(* model, given as a string name or as a direct class reference.           *)

RelationFieldsOf(c) ==
    {f \in DOMAIN StaticFields(c) : Prop(StaticFields(c)[f], "type") = Str("relation")}

\* the target of a relation field is a model registered in map
Resolvable(map, target) ==
    IF target.t = "string" THEN \E i \in DOMAIN map : map[i].name = target.s
    ELSE target.t = "class" /\ \E i \in DOMAIN map : map[i].class = target.name

AllResolvable(map) ==
    \A i \in DOMAIN map : \A f \in RelationFieldsOf(map[i].class) :
        Resolvable(map, Prop(StaticFields(map[i].class)[f], "model"))

ValidateAsStated ==
    regCall.op = "validate" =>
        regOut = IF AllResolvable(models[regCall.registry])
                 THEN [kind |-> "returned"]
                 ELSE [kind |-> "thrown", error |-> "RelatedModelNotFoundError"]

C13_ValidateRaisesExactly == ValidateAsStated

\* what holds of it: the statement on registries whose relation fields all
\* name their target by a string
StringTargetsOnly(map) ==
    \A i \in DOMAIN map : \A f \in RelationFieldsOf(map[i].class) :
        Prop(StaticFields(map[i].class)[f], "model").t = "string"

C13_StringTargets ==
    (regCall.op = "validate" /\ StringTargetsOnly(models[regCall.registry]))
        => ValidateAsStated

\* validate() threw although every relation target is registered
C13_ClassTargetRejected ==
    /\ regCall.op = "validate"
    /\ AllResolvable(models[regCall.registry])
    /\ regOut = [kind |-> "thrown", error |-> "RelatedModelNotFoundError"]

\* validate() threw for a target name that is not registered
C13_UnknownNameWitness ==
    /\ regCall.op = "validate"
    /\ StringTargetsOnly(models[regCall.registry])
    /\ regOut = [kind |-> "thrown", error |-> "RelatedModelNotFoundError"]

-----------------------------------------------------------------------------
(* C14: after a successful validate(), for every relation field F of a     *)
(* registered model M with target T, instances of T have a reverse         *)
(* accessor, named by F's configured reverse name when one is given and    *)
(* otherwise by M's name with a lower-cased first letter followed by       *)
(* "Set", and calling it returns the queryset of the M entities whose F    *)
(* refers to that instance; a second validate() neither fails nor changes  *)
(* the accessors.                                                          *)

\* the name the accessor of field f of model c is to have
ReverseAccessorName(c, f) ==
    IF Truthy(Prop(StaticFields(c)[f], "relatedName"))
    THEN Prop(StaticFields(c)[f], "relatedName").s
    ELSE LowerFirst(c) \o "Set"

\* the class a relation target stands for in map
TargetClass(map, target) ==
    IF target.t = "string" THEN MapGet(map, target).name ELSE target.name

\* calling the accessor named n on an instance of class t (key "1") gives
\* a queryset of the model c filtered on field f
AccessorWorks(ms, st, ps, t, n, c, f) ==
    \E a \in ps[t] :
        /\ a.name = n
        /\ LET res == getRelatedMany(t, ms[st[t]], Str("1"), a.model)
           IN  /\ res.kind = "queryset"
               /\ res.model = c
               /\ DOMAIN res.q["filters"].o \subseteq {f, f \o ".id"}

AccessorsWork(ms, st, ps, r) ==
    \A i \in DOMAIN ms[r] : \A f \in RelationFieldsOf(ms[r][i].class) :
        LET c == ms[r][i].class
            t == TargetClass(ms[r], Prop(StaticFields(c)[f], "model"))
        IN  AccessorWorks(ms, st, ps, t, ReverseAccessorName(c, f), c, f)

ValidatedOK == regCall.op = "validate" /\ regOut = [kind |-> "returned"]

C14_ReverseAccessors ==
    [][Validate =>
        /\ regOut' = [kind |-> "returned"]
              => AccessorsWork(models', stamped', protos', regCall'.registry)
        /\ (ValidatedOK /\ regCall.registry = regCall'.registry)
              => (regOut' = [kind |-> "returned"] /\ protos' = protos)]_vars

\* what holds of it: after a successful validate() every relation field
\* has an accessor on its target under the default name, and a second
\* validate() changes nothing
C14_DefaultAccessorsDefined ==
    [][Validate =>
        /\ regOut' = [kind |-> "returned"] =>
              \A i \in DOMAIN models[regCall'.registry] :
                  LET c == models[regCall'.registry][i].class
                  IN  \A f \in RelationFieldsOf(c) :
                        InPrototype(protos',
                            TargetClass(models[regCall'.registry],
                                        Prop(StaticFields(c)[f], "model")),
                            LowerFirst(c) \o "Set")
        /\ (ValidatedOK /\ regCall.registry = regCall'.registry)
              => (regOut' = [kind |-> "returned"] /\ protos' = protos)]_vars

\* the accessor validate() defined was called and threw
C14_AccessorThrows ==
    /\ regCall.op = "accessor"
    /\ regOut = [kind |-> "thrown", error |-> "InvalidRelationFieldError"]

\* a field configured with relatedName got its accessor under the default name
C14_ConfiguredNameIgnored ==
    /\ ValidatedOK
    /\ \E a \in protos["Group"] : a.model = "CustomReverse" /\ a.name = "customReverseSet"

-----------------------------------------------------------------------------
(* C15: getRelated(fieldKey) distinguishes its outcomes.  It rejects with  *)
(* InvalidRelationFieldError when the field is missing or not              *)
(* relation-typed, rejects with RelatedModelNotFoundError when the field's *)
(* target name is not in the registry, resolves to undefined when the      *)
(* target is resolvable but no target entity has the foreign id, and       *)
(* otherwise resolves to the matching target entity; the foreign id is     *)
(* the field's value or, for an object, the id it carries.                 *)

\* the field a getRelated call names, when the class has it
RelField == ModelFields("Member")[lastCall.fieldKey]
IsRelationCall ==
    /\ lastCall.fieldKey \in DOMAIN ModelFields("Member")
    /\ RelField.type = "relation"

\* the foreign id the member holds in the field of the call
ForeignId ==
    LET value == Prop(objs[lastCall.ref], lastCall.fieldKey)
    IN  IF value.t = "object" THEN Prop(value, "id") ELSE value

\* the stored entities of the target model whose primary key is the foreign id
TargetsWithForeignId ==
    {i \in DOMAIN store[RelField.model] : store[RelField.model][i].key = ForeignId}

RelatedOutcome ==
    IF ~IsRelationCall THEN [kind |-> "rejected", error |-> "InvalidRelationFieldError"]
    ELSE IF RelField.model \notin RegisteredModels
    THEN [kind |-> "rejected", error |-> "RelatedModelNotFoundError"]
    ELSE IF TargetsWithForeignId = {} THEN [kind |-> "undefined"]
    ELSE [kind |-> "entity",
          ref |-> store[RelField.model][CHOOSE i \in TargetsWithForeignId : TRUE].ref]

\* the call is on a field whose target is registered and keyed by pkField
TargetKeyedBy(pkField) ==
    /\ IsRelationCall
    /\ RelField.model \in RegisteredModels
    /\ PkFieldOf(RelField.model) = pkField

C15_RejectedWitness ==
    /\ lastCall.op = "getRelated"
    /\ lastCall.fieldKey = "name"
    /\ lastOut = [kind |-> "rejected", error |-> "InvalidRelationFieldError"]

C15_UndefinedWitness ==
    /\ lastCall.op = "getRelated"
    /\ lastCall.fieldKey = "group"
    /\ ForeignId.t = "string"
    /\ Len(store["Group"]) > 0
    /\ lastOut = [kind |-> "undefined"]

-----------------------------------------------------------------------------
(* C16: getRelated(fieldKey) queries the target model filtered on the      *)
(* target's primary-key field: for a target whose pkField is not "id" it   *)
(* resolves to the target entity whose primary-key attribute equals the    *)
(* foreign id held by the source entity.                                   *)

C16_FiltersOnPrimaryKey ==
    (lastCall.op = "getRelated" /\ TargetKeyedBy("code") /\ ForeignId.t = "string")
        => lastOut = RelatedOutcome

\* a badge stored under the member's foreign id was not found
C16_StoredTargetNotFound ==
    /\ lastCall.op = "getRelated"
    /\ TargetKeyedBy("code")
    /\ TargetsWithForeignId # {}
    /\ lastOut = [kind |-> "undefined"]

\* the badge found is one stored under another key
C16_OtherTargetFound ==
    /\ lastCall.op = "getRelated"
    /\ TargetKeyedBy("code")
    /\ lastOut.kind = "entity"
    /\ Prop(objs[lastOut.ref], "code") # ForeignId

-----------------------------------------------------------------------------
(* C17: querysets are lazy *)

\* the backend.execute calls a step added to the log: those on the backend of
\* the users and those on the backends of related models
MadeCalls == SubSeq(backendLog', Len(backendLog) + 1, Len(backendLog'))
OnUsers(c) == c.model = "User"
OnOthers(c) == c.model # "User"

\* the queryset comes from getRelatedMany: it filters on the reverse key
FromRelatedMany(q) == q["filters"].t = "object" /\ "group.id" \in DOMAIN q["filters"].o

\* the call is one a first() makes: limit(1).execute()
ByFirst(c) == Prop(c.options.pagination, "limit") = Num(1)

\* C17: no chain method and no call of getRelatedMany invokes a backend;
\* execute(), all(), first(), count() and get() call backend.execute of the
\* queryset's backend exactly once, and what else reaches a backend is the
\* one call of each first() that resolves a select-related field; a chain
\* method called on the queryset getRelatedMany returned gives a queryset
\* again, nothing fetched
C17_Lazy ==
    [][lastCall' # lastCall =>
         /\ Len(backendLog') >= Len(backendLog)
         /\ SubSeq(backendLog', 1, Len(backendLog)) = backendLog
         /\ lastCall'.op \notin TerminalMethods => MadeCalls = <<>>
         /\ lastCall'.op \in TerminalMethods =>
               /\ Len(SelectSeq(MadeCalls, OnUsers)) = 1
               /\ OnUsers(MadeCalls[1])
               /\ \A i \in DOMAIN MadeCalls :
                     OnOthers(MadeCalls[i]) =>
                         /\ MadeCalls[i].model = "Group"
                         /\ ByFirst(MadeCalls[i])
                         /\ lastCall'.q["selectRelatedFields"] = Arr(<<Str("group")>>)
         /\ (lastCall'.op \in ChainMethods /\ FromRelatedMany(lastCall'.q))
               => lastOut'.kind = "queryset" /\ FromRelatedMany(lastOut'.q)]_vars

\* a group's users queryset was ordered and paginated, and only the all()
\* that followed reached the backend, once
C17_Witness ==
    /\ lastCall.op = "all"
    /\ lastCall.n = 4
    /\ FromRelatedMany(lastCall.q)
    /\ lastCall.q["pagination"] # Undef
    /\ lastCall.q["ordering"] # Undef
    /\ Len(backendLog) = 1
    /\ lastOut.kind = "rows"
    /\ Len(lastOut.rows) > 0

\* users selected with their group: one call for the users and one first()
\* per user on the backend of the groups
C17_RelatedWitness ==
    /\ lastCall.op = "execute"
    /\ lastCall.n = 2
    /\ Len(objs) = 2
    /\ Len(backendLog) = 3

-----------------------------------------------------------------------------
(* C18: the values-list projection *)

\* what a valuesList call asks for: the field names, and whether its last
\* argument sets flat to true
IsFieldName(v) == v.t = "string"
RequestedFields(args) == SelectSeq(args, IsFieldName)
FlatRequested(args) == args # <<>> /\ Prop(args[Len(args)], "flat") = Bool(TRUE)

\* the value a result becomes: the scalar of the one field with flat, else
\* the array of the requested fields in the requested order
ProjectedAs(args, item) ==
    IF FlatRequested(args) /\ Len(RequestedFields(args)) = 1
    THEN Prop(item, RequestedFields(args)[1].s)
    ELSE Arr([j \in DOMAIN RequestedFields(args) |-> Prop(item, RequestedFields(args)[j].s)])

\* the rows the users' backend resolves a logged call to
BackendRows(c) == MemoryExecute(store, objs, c.options)

\* the queryset without its values list
Unprojected(q) == [q EXCEPT !["valuesListFields"] = Undef, !["valuesListFlat"] = Undef]

\* C18: execute() or all() right after valuesList(args): the backend gets
\* the options of the queryset without the values list, and no restriction
\* of the fields beyond the one the receiver of valuesList had;
\* there is one value per row the backend resolved to, in the same order,
\* and it is the scalar of the field when args hold one field and flat is
\* true, else the array of the requested fields in the requested order
C18_ValuesList ==
    [][(lastCall.op = "valuesList" /\ lastCall'.op \in {"execute", "all"}) =>
         /\ MadeCalls[1].options = ExecuteOptions("User", Unprojected(lastCall'.q))
         /\ MadeCalls[1].options.only = lastCall.q["onlyFields"]
         /\ lastOut'.kind = "values"
         /\ Len(lastOut'.rows) = Len(BackendRows(MadeCalls[1]))
         /\ \A i \in DOMAIN lastOut'.rows :
               lastOut'.rows[i] = ProjectedAs(lastCall.x.a, objs[BackendRows(MadeCalls[1])[i]])]_vars

\* two fields with flat were asked for and the rows came as [id, name] arrays
C18_Witness ==
    /\ lastCall.op = "execute"
    /\ lastCall.q["valuesListFields"] = Arr(<<Str("id"), Str("name")>>)
    /\ lastCall.q["valuesListFlat"] = Bool(TRUE)
    /\ lastOut.kind = "values"
    /\ Len(lastOut.rows) = 2
    /\ lastOut.rows[1] = Arr(<<Str("u1"), Str("Ana")>>)

\* one field with flat was asked for and the rows came as scalars
C18_FlatWitness ==
    /\ lastCall.op = "execute"
    /\ lastCall.q["valuesListFields"] = Arr(<<Str("name")>>)
    /\ lastCall.q["valuesListFlat"] = Bool(TRUE)
    /\ lastOut.kind = "values"
    /\ Len(lastOut.rows) = 2
    /\ lastOut.rows[1] = Str("Ana")

-----------------------------------------------------------------------------
(* C19: normalize is idempotent *)

\* C19: normalizing an event that Event.new normalized returns the attribute
\* values the event has, whatever the kinds of its fields
C19_Idempotent ==
    lastCall.op = "normalize" =>
        lastOut = [kind |-> "returned", value |-> objs[lastCall.ref]]

\* the attributes of the kinds string, number, relation and nested
SteadyKeys == {k \in DOMAIN ModelFields("Event") :
                  ModelFields("Event")[k].type \in {"string", "number", "relation", "nested"}}

\* the same for the string, number, relation and nested fields alone
C19_IdempotentSteadyKinds ==
    (lastCall.op = "normalize" /\ lastOut.kind = "returned") =>
        \A k \in SteadyKeys : Prop(lastOut.value, k) = Prop(objs[lastCall.ref], k)

\* the nested address was built once and kept, the seats parsed once
C19_SteadyWitness ==
    /\ lastCall.op = "normalize"
    /\ lastOut.kind = "returned"
    /\ Prop(lastOut.value, "seats") = Num(41)
    /\ Prop(lastOut.value, "address") = Instance("Address", [city |-> Str("Rio"), zip |-> Num(41)])
    /\ Prop(lastOut.value, "group") = Obj([id |-> Str("g1")])

\* the date of the event is replaced by the time of the second normalize
C19_DateRestamped ==
    /\ lastCall.op = "normalize"
    /\ lastOut.kind = "returned"
    /\ Prop(objs[lastCall.ref], "at") = DateAt(1)
    /\ Prop(lastOut.value, "at") = DateAt(2)

\* a JSON value that is a string is parsed again
C19_JsonParsedAgain ==
    /\ lastCall.op = "normalize"
    /\ lastOut.kind = "returned"
    /\ Prop(objs[lastCall.ref], "meta") = Str("41")
    /\ Prop(lastOut.value, "meta") = Num(41)

\* a JSON value that is a string and no JSON text makes normalize throw
C19_JsonThrows ==
    /\ lastCall.op = "normalize"
    /\ Prop(objs[lastCall.ref], "meta") = Str("Ana")
    /\ lastOut = [kind |-> "thrown", error |-> "SyntaxError"]

-----------------------------------------------------------------------------
(* C20: the field round trip *)

\* the instant an ISO text denotes
Denoted(x) == CHOOSE ms \in 0..MaxClock : x = toISOString(DateAt(ms))

\* C20: for a date field and a JSON field and every external input x,
\* toExternal(toInternal(x)) is x, and the date toInternal yields is the
\* one x denotes
C20_RoundTrip ==
    lastCall.op = "roundTrip" =>
        /\ lastOut.kind = "returned"
        /\ lastOut.value = lastCall.x
        /\ lastCall.field.type = "date" => lastOut.internal = DateAt(Denoted(lastCall.x))

\* the texts JSON.stringify writes
WrittenJson == {x \in JsonTexts : JSONstringify(JSONparse(x.s)) = x}

\* the round trip of the JSON field on the texts JSON.stringify writes
C20_JsonRoundTrip ==
    (lastCall.op = "roundTrip" /\ lastCall.field.type = "json" /\ lastCall.x \in WrittenJson) =>
        lastOut.kind = "returned" /\ lastOut.value = lastCall.x

C20_JsonWitness ==
    /\ lastCall.op = "roundTrip"
    /\ lastCall.x = Str("{\"x\":1}")
    /\ lastOut.kind = "returned"
    /\ lastOut.internal = Obj([x |-> Num(1)])
    /\ lastOut.value = Str("{\"x\":1}")

\* the date field returned the current time for a text denoting another instant
C20_DateIgnored ==
    /\ lastCall.op = "roundTrip"
    /\ lastCall.x = toISOString(DateAt(0))
    /\ lastOut.kind = "returned"
    /\ lastOut.internal = DateAt(2)
    /\ lastOut.value = toISOString(DateAt(2))

\* a JSON text with white space comes back without it
C20_JsonRewritten ==
    /\ lastCall.op = "roundTrip"
    /\ lastCall.x = Str("{ \"x\": 1 }")
    /\ lastOut.kind = "returned"
    /\ lastOut.value = Str("{\"x\":1}")

-----------------------------------------------------------------------------
(* C21: the mutations of the GraphQL backend *)

\* C21: save(entity) and delete(entity) on a GraphQLBackend whose integrator
\* did not override them reject; they never resolve
C21_MutationsFailLoudly ==
    (lastCall.op \in {"save", "delete"} /\ ~lastCall.overridden) => lastOut.kind = "rejected"

\* save on the backend as shipped has resolved
C21_SaveResolves ==
    lastCall.op = "save" /\ ~lastCall.overridden /\ lastOut.kind = "resolved"

\* saveRequest and deleteRequest, which save and delete never call, reject
C21_RequestsReject ==
    (lastCall.op \in {"saveRequest", "deleteRequest"} /\ ~lastCall.overridden)
        => lastOut = [kind |-> "rejected", error |-> "Error"]

C21_RequestWitness ==
    lastCall.op = "deleteRequest" /\ ~lastCall.overridden /\ lastOut.kind = "rejected"

-----------------------------------------------------------------------------
(* C22: the operator of a lookup object that is not registered *)

\* the operator, the operand and the attribute of the last matcher run on a
\* lookup object
RanOperator == CHOOSE name \in DOMAIN mFilter.o["age"].o : TRUE
RanOperand == mFilter.o["age"].o[RanOperator]
RanAttribute == Prop(mItem, "age")
RanOnLookupObject == mResult # "none" /\ IsPlainObject(mFilter.o["age"])
AsText(b) == IF b THEN "true" ELSE "false"

\* C22: a matcher run on a lookup object whose operator name is not
\* registered never throws: it returns attribute === operand
C22_UnknownIsStrictEquality ==
    (RanOnLookupObject /\ RanOperator \notin DOMAIN lookups)
        => mResult = AsText(StrictEq(RanAttribute, RanOperand))

\* an operator that is not registered and names a member of Object.prototype
\* made the matcher throw
C22_InheritedThrows ==
    /\ RanOnLookupObject
    /\ RanOperator = "constructor"
    /\ RanOperator \notin DOMAIN lookups
    /\ mResult = "TypeError"

\* for the names Object.prototype does not carry the run returns
\* attribute === operand
C22_UnknownPlainName ==
    (RanOnLookupObject /\ RanOperator \notin DOMAIN lookups \cup ObjectPrototype)
        => mResult = AsText(StrictEq(RanAttribute, RanOperand))

C22_PlainWitness ==
    /\ RanOnLookupObject
    /\ RanOperator = "like"
    /\ mResult = "true"

\* once a lookup is registered under a name, a run on that name returns the
\* registered comparison
C22_RegisteredIsUsed ==
    [][\A name \in RegisteredNames, impl \in RegisteredImpls :
          (/\ name \in DOMAIN lookups /\ lookups[name] = impl
           /\ mResult' # mResult \/ mFilter' # mFilter \/ mItem' # mItem
           /\ IsPlainObject(mFilter'.o["age"])
           /\ name \in DOMAIN mFilter'.o["age"].o)
          => mResult' = AsText(CompareWith(impl, Prop(mItem', "age"), mFilter'.o["age"].o[name]))]_vars

C22_RegisteredWitness ==
    /\ RanOnLookupObject
    /\ RanOperator = "toString"
    /\ "toString" \in DOMAIN lookups
    /\ lookups["toString"] = "lte"
    /\ mResult = "true"

-----------------------------------------------------------------------------
(* C23: prefetchRelated and the names the model does not define *)

\* the names under a value that is a map, none under undefined
NamesOf(v) == IF v.t = "object" THEN DOMAIN v.o ELSE {}
UnknownNames(model, names) == names \ DOMAIN ModelFields(model)

\* C23: the options execute() hands to the backend carry no prefetchRelated
\* entry and no relatedQuerySets entry under a name the model does not
\* define as a field
C23_UnknownIgnored ==
    execOpts # <<>> =>
        /\ UnknownNames("User", NamesOf(execOpts[1].prefetchRelated)) = {}
        /\ UnknownNames("User", DOMAIN execOpts[1].relatedQuerySets) = {}

\* the options carry a prefetchRelated entry under a name given as a bare
\* string that the model does not define
C23_BareNameKept ==
    /\ execOpts # <<>>
    /\ "nope" \in NamesOf(execOpts[1].prefetchRelated)
    /\ execOpts[1].prefetchRelated.o["nope"] = Bool(TRUE)

\* no relatedQuerySets entry is ever made under such a name
C23_NoRelatedQuerySet ==
    execOpts # <<>> => UnknownNames("User", DOMAIN execOpts[1].relatedQuerySets) = {}

\* the options of a queryset that was given the config map {posts, nope}
\* only: posts is prefetched, nope is in neither entry
C23_ConfigKeyDropped ==
    /\ execOpts # <<>>
    /\ NamesOf(execOpts[1].prefetchRelated) = {"posts"}
    /\ DOMAIN execOpts[1].relatedQuerySets = {"posts"}

-----------------------------------------------------------------------------
(* C24: the relation tasks of MemoryBackend.execute *)

Queried == lastCall.op = "execute"
Resolved == Queried /\ lastOut.kind = "rows"
Slot(task) == <<task.item, task.field>>
DisjointSlots(tasks) == \A i, j \in DOMAIN tasks : i # j => Slot(tasks[i]) # Slot(tasks[j])

\* the instances when every task of the last query has settled, in the
\* order the tasks were pushed
InPushedOrder == SettleAll(store, lastCall.before, lastCall.tasks)

\* C24: no two tasks of a query write the same (result, field) slot, and
\* once the query has resolved the instances are what they are when the
\* tasks settle in the order pushed, whatever order they settled in
C24_RaceFree ==
    Queried => /\ DisjointSlots(lastCall.tasks)
               /\ Resolved => objs = InPushedOrder

\* two tasks of one query write the same slot
C24_SameSlotTwice == Queried /\ ~DisjointSlots(lastCall.tasks)

\* a query of categories has resolved to instances other than those of the
\* pushed order
C24_OrderShows ==
    /\ Resolved
    /\ DisjointSlots(lastCall.tasks)
    /\ objs # InPushedOrder

\* on users, whose related models are other models, the instances after a
\* query do not depend on the order the tasks settled in
C24_OrderFreeAcrossModels ==
    (Resolved /\ lastCall.model = "User") => objs = InPushedOrder

C24_AcrossWitness ==
    /\ Resolved
    /\ lastCall.model = "User"
    /\ Len(lastCall.tasks) = 2
    /\ DisjointSlots(lastCall.tasks)
    /\ objs # lastCall.before

-----------------------------------------------------------------------------
(* C25: getSchema and fullClean on models that refer to themselves or to *)
(* each other                                                            *)

\* a model that can be reached from itself through nested fields can be
\* reached from the model the call is on
RECURSIVE ReachedFrom(_, _, _)
ReachedFrom(graph, seen, n) ==
    IF n = 0 THEN seen
    ELSE ReachedFrom(graph, seen \cup UNION {graph[m] : m \in seen}, n - 1)
Reached(graph, model) == ReachedFrom(graph, graph[model], Cardinality(SchemaModels))
CycleBelow(graph, root) ==
    \E m \in Reached(graph, root) \cup {root} : m \in Reached(graph, m)

\* C25: getSchema() visits each model once, and neither it nor the
\* validators fullClean() runs call without end: no run exhausts the call
\* stack
C25_Terminates ==
    /\ \A m \in SchemaModels : schemaRun.visits[m] <= 1
    /\ Len(schemaRun.stack) <= Cardinality(SchemaModels) + 1
    /\ ~(schemaRun.out.kind \in {"thrown", "rejected"})

\* fullClean() on an instance of a model that refers to itself has rejected
\* with the call stack exhausted
C25_StackExhausted ==
    /\ schemaRun.op = "fullClean"
    /\ schemaRun.root = "Tree"
    /\ schemaRun.graph = [m \in SchemaModels |-> IF m = "Tree" THEN {"Tree"} ELSE {}]
    /\ schemaRun.out = [kind |-> "rejected", error |-> "ValidationError", cause |-> "RangeError"]

\* getSchema() visits each model once and its stack holds each model once
C25_SchemaOnce ==
    /\ \A m \in SchemaModels : schemaRun.visits[m] <= 1
    /\ schemaRun.phase = "schema" => Len(schemaRun.stack) <= Cardinality(SchemaModels)
    /\ schemaRun.out.kind # "thrown"

C25_SchemaWitness ==
    /\ schemaRun.op = "getSchema"
    /\ schemaRun.out.kind = "returned"
    /\ CycleBelow(schemaRun.graph, schemaRun.root)
    /\ \A m \in SchemaModels : schemaRun.visits[m] = 1

\* the validators exhaust the stack exactly on the models below which a
\* model refers back to itself
C25_ValidatorsEndWithoutCycle ==
    (schemaRun.op = "fullClean" /\ schemaRun.phase = "done")
        => (schemaRun.out.kind = "rejected" <=> CycleBelow(schemaRun.graph, schemaRun.root))

-----------------------------------------------------------------------------
(* C26: no lost update between MemoryBackend calls made at once *)

AllSettled == flights # <<>> /\ Suspended = {}
CallsOf(op) == {i \in DOMAIN flights : flights[i].op = op}
SavedKeys == {flights[i].pk : i \in CallsOf("save")}
DeletedKeys == {flights[i].pk : i \in CallsOf("delete")}

\* what the calls of the run ask for, each key being the subject of one
\* kind of call only: a saved key is in the Map, a deleted key is not
KeptAndGone ==
    /\ \A k \in SavedKeys \ DeletedKeys : k \in MapKeySet(store)
    /\ \A k \in DeletedKeys \ SavedKeys : k \notin MapKeySet(store)

\* C26: once every save and delete of the run has resolved, every
\* instance saved under a key of its own is stored and every key that was
\* only deleted is absent, however the calls were interleaved
C26_NoLostUpdate == AllSettled => KeptAndGone

\* two saves of different keys ran beside each other and one of the keys
\* is not in the Map
C26_SaveLost ==
    /\ AllSettled
    /\ DeletedKeys = {}
    /\ \E k \in SavedKeys : k \notin MapKeySet(store)

\* a key was deleted while a save of another key was suspended, and it is
\* in the Map again
C26_DeleteUndone ==
    /\ AllSettled
    /\ \E k \in DeletedKeys \ SavedKeys : k \in MapKeySet(store)

\* calls that never ran beside another one leave what they ask for
C26_OneAtATimeKeeps ==
    (AllSettled /\ \A i \in DOMAIN flights : ~flights[i].beside) => KeptAndGone

\* three calls were made one after the other and all have resolved
C26_OneAtATimeWitness ==
    /\ AllSettled
    /\ Len(flights) = MaxFlights
    /\ \A i \in DOMAIN flights : ~flights[i].beside
    /\ SavedKeys # {} /\ DeletedKeys # {}

-----------------------------------------------------------------------------
(* C27: queries do not change stored data *)

PlainQuery == DefaultQS
AllTagsQuery == QPrefetchRelated("User", DefaultQS, <<Str("tags")>>)
StoredUser == objs[5]
SecondQueryResolved(q) ==
    Resolved /\ lastCall.n = 2 /\ lastCall.model = "User" /\ lastCall.q = q

\* C27: when a query has resolved, the attributes of every stored instance
\* are what they were before it
C27_QueriesLeaveStored == Resolved => objs = lastCall.before

\* an unfiltered prefetch of tags has resolved after a narrowing one and
\* the stored user holds one tag, of the two saved
C27_NarrowedStays ==
    /\ SecondQueryResolved(AllTagsQuery)
    /\ Len(Prop(StoredUser, "tags").a) = 1

\* a plain query has resolved after a select-related one and the stored
\* user holds the group instance where the foreign key was saved
C27_ReferenceReplaced ==
    /\ SecondQueryResolved(PlainQuery)
    /\ Prop(StoredUser, "group").t = "ref"

\* on the data as saved, an unfiltered prefetch attaches both tags and a
\* query without related fields leaves the stored instances as they are
C27_FirstQueryAsSaved ==
    (Resolved /\ lastCall.n = 1 /\ lastCall.model = "User")
        => /\ lastCall.q = AllTagsQuery => Len(Prop(objs[5], "tags").a) = 2
           /\ lastCall.q = PlainQuery => objs = lastCall.before

C27_FirstQueryWitness ==
    /\ Resolved /\ lastCall.n = 1 /\ lastCall.model = "User"
    /\ lastCall.q = AllTagsQuery
    /\ \A i \in 1..2 : Prop(objs[5], "tags").a[i].t = "ref"

-----------------------------------------------------------------------------
(* C28: a chain method carries over the components it does not name *)

\* a step that is a call of a chain method other than valuesList
OtherChainCall ==
    \/ CallFilter \/ CallExclude \/ CallOrderBy \/ CallLimit \/ CallPaginate
    \/ CallOnly \/ CallSelectRelated \/ CallPrefetchRelated

\* the receiver of the call that is made, and the queryset it returns
ChainReceiver == View(heap, qsObjs[qsCall'.src])
ChainReturned == View(heap', qsObjs'[qsCall'.ret])
ProjectionOf(q) == <<q["valuesListFields"], q["valuesListFlat"]>>

\* C28: the queryset a chain method other than valuesList returns has the
\* values-list projection of its receiver, and execute() on it projects the
\* rows as execute() on the receiver does
C28_ProjectionCarried ==
    [][OtherChainCall =>
          /\ ProjectionOf(ChainReturned) = ProjectionOf(ChainReceiver)
          /\ Project(ChainReturned, MockRows) = Project(ChainReceiver, MockRows)]_vars

\* the last chain call and the querysets of it
LastReceiver == View(heap, qsObjs[qsCall.src])
LastReturned == View(heap, qsObjs[qsCall.ret])

\* execute() ran on a queryset returned by a call on a queryset with a
\* projection: it has none and the rows come back as the backend gave them
C28_ProjectionDropped ==
    /\ qsCall.ret # 0
    /\ execSrc = qsCall.ret
    /\ Truthy(LastReceiver["valuesListFields"])
    /\ LastReturned["valuesListFields"] = Undef
    /\ LastReturned["filters"] # LastReceiver["filters"]
    /\ execResult = MockRows

\* the components clone() copies are carried over by a call that names
\* another one
CloneCopies == {"pagination", "onlyFields", "selectRelatedFields", "prefetchRelatedFields"}
C28_CloneCopiesCarried ==
    [][(CallFilter \/ CallExclude \/ CallOrderBy \/ CallValuesList) =>
          \A f \in CloneCopies : ChainReturned[f] = ChainReceiver[f]]_vars

\* valuesList was called on a queryset with select-related fields and a page
C28_CloneCopiesWitness ==
    /\ qsCall.ret # 0
    /\ Truthy(LastReturned["valuesListFields"])
    /\ LastReceiver["valuesListFields"] = Undef
    /\ \E f \in CloneCopies : Truthy(LastReturned[f]) /\ LastReturned[f] = LastReceiver[f]

-----------------------------------------------------------------------------
(* C29: DexieBackend.execute against MemoryBackend.execute *)

RanOnDexie == lastCall.op = "execute" /\ backend.kind = "dexie"
OnMemory == Entities("storage", objs, MemoryExecute(store, objs, lastCall.options), clock)
PageOf(options) == options.pagination
Ordered(options) == options.ordering.t = "array" /\ Len(options.ordering.a) > 0

\* C29: what execute resolves to on a DexieBackend is what it resolves to on
\* a MemoryBackend with the same users and the same options: the same
\* entities in the same order
C29_SameAsMemory == RanOnDexie => lastOut.rows = OnMemory

\* an ordered query with an offset: the DexieBackend has cut the page out
\* before sorting and returns other entities than the MemoryBackend
C29_PageBeforeSort ==
    /\ RanOnDexie
    /\ Ordered(lastCall.options)
    /\ Truthy(Prop(PageOf(lastCall.options), "offset"))
    /\ lastOut.rows # OnMemory

\* a limit of 0: the DexieBackend returns every match
C29_LimitZeroReturnsAll ==
    /\ RanOnDexie
    /\ Prop(PageOf(lastCall.options), "limit") = Num(0)
    /\ Len(lastOut.rows) = MaxRows
    /\ OnMemory = <<>>

\* without pagination the two backends return the same entities in the
\* same order
C29_SameWithoutPage ==
    (RanOnDexie /\ PageOf(lastCall.options) = Undef) => lastOut.rows = OnMemory

\* a filtered and ordered query without pagination on a DexieBackend that
\* returns several users in another order than they were saved in
C29_WithoutPageWitness ==
    /\ RanOnDexie /\ PageOf(lastCall.options) = Undef
    /\ Ordered(lastCall.options)
    /\ Truthy(lastCall.options.filters) /\ lastCall.options.filters # EmptyObj
    /\ Len(lastOut.rows) >= 2
    /\ lastOut.rows[1] = objs[Len(objs)]

-----------------------------------------------------------------------------
(* C30: eager and lazy resolution of a reverse field *)

ReverseFields == {"children", "owned"}
CategoryRegistry == <<[name |-> "Category", class |-> "Category"]>>
PrefetchOf(R) == QPrefetchRelated("Category", DefaultQS, <<Str(R)>>)
PrefetchResolved(R) == Resolved /\ lastCall.model = "Category" /\ lastCall.q = PrefetchOf(R)

\* the instances execute() with prefetchRelated(R) attached to instance e
Eager(e, R) == {Prop(objs[e], R).a[i].ref : i \in DOMAIN Prop(objs[e], R).a}

\* the instances e.getRelatedMany(R).execute() resolves to
LazyQuery(e, R) == getRelatedMany("Category", CategoryRegistry, getPk(objs[e]), R)
Lazy(e, R) ==
    LET rows == FanRows(LazyQuery(e, R).model, store, objs,
                        ExecuteOptions(LazyQuery(e, R).model, LazyQuery(e, R).q))
    IN  {rows[i] : i \in DOMAIN rows}

EagerIsLazy(R) ==
    PrefetchResolved(R) =>
        \A i \in DOMAIN lastCall.rows : Eager(lastCall.rows[i], R) = Lazy(lastCall.rows[i], R)

\* C30: when execute() with prefetchRelated(R) of a reverse field R has
\* resolved, what it attached to each instance are the instances that
\* getRelatedMany(R).execute() of that instance resolves to, for a field
\* with a relatedName and for one without
C30_EagerIsLazy == \A R \in ReverseFields : EagerIsLazy(R)

\* the field with a relatedName: the prefetch attached the instances found
\* under the name of the class, getRelatedMany finds those under the
\* relatedName
C30_RelatedNameIgnored ==
    /\ PrefetchResolved("owned")
    /\ \E i \in DOMAIN lastCall.rows :
          /\ Eager(lastCall.rows[i], "owned") = {}
          /\ Lazy(lastCall.rows[i], "owned") # {}

\* for the field without a relatedName the two agree
C30_AgreeWithoutRelatedName == EagerIsLazy("children")

C30_AgreeWitness ==
    /\ PrefetchResolved("children")
    /\ \E i \in DOMAIN lastCall.rows :
          /\ Eager(lastCall.rows[i], "children") # {}
          /\ Eager(lastCall.rows[i], "children") = Lazy(lastCall.rows[i], "children")

====
